---- MODULE Spec2Model ----
(***************************************************************************)
(* Velocitats: the sensor-fusion and alerting pipeline.                    *)
(*                                                                         *)
(*   AudioEngine      src/js/audio.js                                      *)
(*   VelocitatsApp    src/unnamed/part_000                                 *)
(*   SensorManager    src/unnamed/part_001                                 *)
(*   SensorSimulator  src/android_web_app_spec.md                          *)
(*                                                                         *)
(* Units.  The program computes in floating point; the model uses exact    *)
(* integers in finer units, so that every comparison of the code is the    *)
(* same comparison here:                                                   *)
(*   speed          tenths of m/s          (0.5 m/s  is 5)                 *)
(*   acceleration   tenths of m/s^2        (-2.0     is -20)               *)
(*   time           milliseconds           (Date.now())                    *)
(*   angles         whole degrees                                          *)
(*   latitude/longitude   arc-seconds      (1 degree is 3600)              *)
(*   arrow length   sixtieths of a display unit                            *)
(* An optional value (a field that may be null/undefined) is a sequence of *)
(* length 0 (absent) or 1 (present).                                       *)
(* Date.now() is taken to be non-decreasing.                               *)
(***************************************************************************)
EXTENDS Integers, Sequences, FiniteSets, TLC

----------------------------------------------------------------------------
(* Bounds of the model *)

\* Date.now() when the page is constructed; any value >= debounceMs stands
\* for the epoch time of a real clock.
Epoch == 2000
\* the clock advances in steps of TimeStep up to MaxNow
TimeStep == 500
MaxNow == 4000
\* number of button clicks (async tasks) a run may contain
MaxTasks == 2
\* number of setInterval calls a run may contain
MaxTimers == 2
\* number of simulator ticks followed where the simulator runs beside the
\* live source
MaxTicks == 3

----------------------------------------------------------------------------
(* Program constants *)

\* this.audioContext = null
NoContext == 0
\* this.debounceMs = 1000
DefaultDebounceMs == 1000
\* this.SPEED_THRESHOLD = 0.5
DefaultSpeedThreshold == 5
\* this.BRAKE_THRESHOLD = -2.0
DefaultBrakeThreshold == -20
\* this.gpsWatchId = null
NoWatch == 0
\* this.intervalId = null
NoInterval == 0
\* the delay of the liveness timers: setTimeout(..., 2000)
ProbeMs == 2000

\* SensorSimulator: scenarioTime is counted in ticks.  The code adds the
\* double 1/30 to a scenarioTime that restarts from 0 and compares the sum
\* with a number of seconds; the sums of IEEE doubles are 60 * (1/30) =
\* 2.0000000000000027, 90 * (1/30) = 2.999999999999999, 150 * (1/30) =
\* 4.999999999999992, 240 * (1/30) = 7.999999999999981 and 360 * (1/30) =
\* 11.999999999999968.  So the first tick count whose sum is
\*   > 5 (accelerate) is
AccelerateTicks == 151
\*   > 2 (brake) is
BrakeTicks == 60
\*   > 3 (stop) is
StopTicks == 91
\*   > 8 + Math.random() * 4 for the smallest random number, 0, is
CruiseMinTicks == 241
\*   > 8 + Math.random() * 4 for every random number in [0,1) is
CruiseMaxTicks == 361
\* Math.min(this.speed + 0.5, 15), in tenths of m/s
SimMaxSpeed == 150

----------------------------------------------------------------------------
(* Input domains *)

None == << >>
Some(x) == << x >>

\* values the two ion-range sliders (and saved settings) can give
SpeedThresholds == {DefaultSpeedThreshold, 50}
BrakeThresholds == {DefaultBrakeThreshold, -30}
\* setDebounce arguments
DebounceChoices == {DefaultDebounceMs, 500}

\* sample values: speeds 0, 0.5, 5.0 m/s; forward -3.0, -2.0, 0 m/s^2
\* (each threshold value is also a sample value: the comparisons are strict)
Speeds == {0, 5, 50}
Forwards == {-30, -20, 0}
Bearings == {0, 90, 270}
\* 41 deg 23' 6" N, 41 deg 30' 0" S/W, 2 deg 10' 24" E
Latitudes == {148986, -149400}
Longitudes == {7824, -149400}

\* JavaScript's x || 0 on an optional number
OrZero(opt) == IF opt = None THEN 0 ELSE opt[1]

----------------------------------------------------------------------------
VARIABLES
    \* AudioEngine
    audioContext, isUnlocked, lastBeepTime, debounceMs,
    \* the platform's AudioContext objects: state of each one constructed
    ctxState,
    \* Date.now()
    now,
    \* VelocitatsApp
    isSimulating, SPEED_THRESHOLD, BRAKE_THRESHOLD,
    currentSpeed, currentBearing, currentAzimuth, currentAcceleration,
    isBraking,
    \* VelocitatsApp.elements (what the handlers write to the page)
    brakeIndicatorHidden, bearingText, latitudeText, longitudeText,
    northRotation, velocityRotation, arrowLength,
    \* callbacks registered on the two data sources by start()
    simWired, liveWired,
    \* SensorManager
    gpsWatchId, lastPosition,
    \* the platform's position watches: ids handed out, ids still active
    watchIds, activeWatches,
    \* one entry per startMotion()/startOrientation() call: the listener it
    \* added with its closure variables and its setTimeout
    subs,
    \* stop() has returned and start(false) was not run since
    liveStopped,
    \* what the platform offers, once initialize() has looked
    platform,
    \* whether navigator.geolocation is there, once startGps() has looked
    geolocation,
    \* SensorSimulator
    isRunning, intervalId, scenario, scenarioTime,
    simSpeed, simBearing, simAzimuth, simAcceleration, simLatitude, simLongitude,
    \* the platform's interval timers: ids handed out, ids still active
    timerIds, activeIntervals,
    \* async functions in flight: one entry per click
    tasks,
    \* what the last step did (observable outputs of the step)
    lastOp, alertCalls, beepRet, toneStarted, unlockRet, silentOn,
    \* Date.now() of the last playBeep call that returned true
    lastSuccessTime,
    \* some playBrakeAlert call made so far has returned false
    alertRefused,
    \* the onError(sensor, message) call the last step made, if any
    lastError

audioVars == <<audioContext, isUnlocked, lastBeepTime, debounceMs, ctxState>>
appVars == <<isSimulating, SPEED_THRESHOLD, BRAKE_THRESHOLD, currentSpeed,
             currentBearing, currentAzimuth, currentAcceleration, isBraking>>
uiVars == <<brakeIndicatorHidden, bearingText, latitudeText, longitudeText,
            northRotation, velocityRotation, arrowLength>>
wireVars == <<simWired, liveWired>>
liveVars == <<watchIds, activeWatches, subs, liveStopped, platform, geolocation>>
sensorVars == <<gpsWatchId, lastPosition, liveVars>>
simVars == <<isRunning, intervalId, scenario, scenarioTime, simSpeed, simBearing,
             simAzimuth, simAcceleration, simLatitude, simLongitude,
             timerIds, activeIntervals>>
outVars == <<lastOp, alertCalls, beepRet, toneStarted, unlockRet, silentOn,
             lastSuccessTime, alertRefused, lastError>>
vars == <<audioVars, now, appVars, uiVars, wireVars, sensorVars, simVars, tasks,
          outVars>>

----------------------------------------------------------------------------
(* Unit & Geo utilities and derived display values *)

\* JavaScript's % (the remainder takes the sign of the dividend)
JsRem(a, n) == IF a >= 0 THEN a % n ELSE -((-a) % n)

\* x % 360 alone
Normalize_SingleRem(x) == JsRem(x, 360)

\* ((x % 360) + 360) % 360
Normalize(x) == JsRem(JsRem(x, 360) + 360, 360)

\* SensorManager.toDMS on a coordinate given in arc-seconds:
\* <<degrees, minutes, seconds, direction>>
toDMS(decimal, isLatitude) ==
    LET absolute == IF decimal < 0 THEN -decimal ELSE decimal
        degrees == absolute \div 3600
        minutes == (absolute - degrees * 3600) \div 60
        seconds == (absolute - degrees * 3600) - minutes * 60
        direction == IF isLatitude
                     THEN (IF decimal >= 0 THEN "N" ELSE "S")
                     ELSE (IF decimal >= 0 THEN "E" ELSE "W")
    IN <<degrees, minutes, seconds, direction>>

\* the arrow length without Math.min(..., 1)
ArrowLength_NoClamp(speed) == 2100 + 7 * speed

\* minLength + (maxLength - minLength) * min(speed / maxSpeed, 1), in
\* sixtieths, for a speed in tenths of m/s: 60*35 + 60*35*min(s/300, 1)
ArrowLength(speed) ==
    LET capped == IF speed < 300 THEN speed ELSE 300
    IN 2100 + 7 * capped

----------------------------------------------------------------------------
Init ==
    /\ audioContext = NoContext
    /\ isUnlocked = FALSE
    /\ lastBeepTime = 0
    /\ debounceMs = DefaultDebounceMs
    /\ ctxState = << >>
    /\ now = Epoch
    /\ isSimulating = FALSE
    \* loadSettings() overwrites the defaults with saved slider values
    /\ SPEED_THRESHOLD \in SpeedThresholds
    /\ BRAKE_THRESHOLD \in BrakeThresholds
    /\ currentSpeed = 0
    /\ currentBearing = 0
    /\ currentAzimuth = 0
    /\ currentAcceleration = 0
    /\ isBraking = FALSE
    \* the page starts with the brake indicator hidden: checkBraking shows
    \* it only by removing the class 'hidden'
    /\ brakeIndicatorHidden = TRUE
    /\ bearingText = None
    /\ latitudeText = None
    /\ longitudeText = None
    /\ northRotation = None
    /\ velocityRotation = None
    /\ arrowLength = None
    /\ simWired = FALSE
    /\ liveWired = FALSE
    /\ gpsWatchId = NoWatch
    /\ lastPosition = None
    /\ watchIds = 0
    /\ activeWatches = {}
    /\ subs = << >>
    /\ liveStopped = FALSE
    /\ platform = None
    /\ geolocation = None
    /\ isRunning = FALSE
    /\ intervalId = NoInterval
    /\ scenario = "cruise"
    /\ scenarioTime = 0
    /\ simSpeed = 0
    /\ simBearing = 0
    /\ simAzimuth = 0
    /\ simAcceleration = 0
    \* 41.3851 N, 2.1734 E to the arc-second
    /\ simLatitude = 148986
    /\ simLongitude = 7824
    /\ timerIds = 0
    /\ activeIntervals = {}
    /\ tasks = [i \in 1..MaxTasks |-> [kind |-> "none", pc |-> "free", ctx |-> NoContext,
                                       watch |-> NoWatch, gps |-> FALSE]]
    /\ lastOp = "init"
    /\ alertCalls = 0
    /\ beepRet = "none"
    /\ toneStarted = FALSE
    /\ unlockRet = "none"
    /\ silentOn = NoContext
    /\ lastSuccessTime = None
    /\ alertRefused = FALSE
    /\ lastError = None

----------------------------------------------------------------------------
(* AudioEngine *)

\* the outcome of a step that calls playBeep no time
NoBeep == [called |-> FALSE, ret |-> FALSE, lastBeepTime |-> lastBeepTime, tone |-> FALSE]

\* playBeep without `this.lastBeepTime = now`
PlayBeep_NoTimestamp(unlocked, ctx, lbt, valid) ==
    IF ~unlocked \/ ctx = NoContext
    THEN [called |-> TRUE, ret |-> FALSE, lastBeepTime |-> lbt, tone |-> FALSE]
    ELSE IF now - lbt < debounceMs
    THEN [called |-> TRUE, ret |-> FALSE, lastBeepTime |-> lbt, tone |-> FALSE]
    ELSE IF valid
    THEN [called |-> TRUE, ret |-> TRUE, lastBeepTime |-> lbt, tone |-> TRUE]
    ELSE [called |-> TRUE, ret |-> FALSE, lastBeepTime |-> lbt, tone |-> FALSE]

\* playBeep whose guard tests only `!this.audioContext`
PlayBeep_ContextOnly(unlocked, ctx, lbt, valid) ==
    IF ctx = NoContext
    THEN [called |-> TRUE, ret |-> FALSE, lastBeepTime |-> lbt, tone |-> FALSE]
    ELSE IF now - lbt < debounceMs
    THEN [called |-> TRUE, ret |-> FALSE, lastBeepTime |-> lbt, tone |-> FALSE]
    ELSE IF valid
    THEN [called |-> TRUE, ret |-> TRUE, lastBeepTime |-> now, tone |-> TRUE]
    ELSE [called |-> TRUE, ret |-> FALSE, lastBeepTime |-> now, tone |-> FALSE]

\* playBeep that takes the timestamp before the debounce check
PlayBeep_StampBeforeCheck(unlocked, ctx, lbt, valid) ==
    IF ~unlocked \/ ctx = NoContext
    THEN [called |-> TRUE, ret |-> FALSE, lastBeepTime |-> lbt, tone |-> FALSE]
    ELSE IF now - lbt < debounceMs
    THEN [called |-> TRUE, ret |-> FALSE, lastBeepTime |-> now, tone |-> FALSE]
    ELSE IF valid
    THEN [called |-> TRUE, ret |-> TRUE, lastBeepTime |-> now, tone |-> TRUE]
    ELSE [called |-> TRUE, ret |-> FALSE, lastBeepTime |-> now, tone |-> FALSE]

\* playBeep(frequency, duration, type) on an engine whose fields are
\* (unlocked, ctx, lbt), at Date.now() = now.  valid: the arguments are
\* finite numbers the Web Audio calls accept; otherwise setValueAtTime
\* throws inside the try block.
PlayBeep(unlocked, ctx, lbt, valid) ==
    IF ~unlocked \/ ctx = NoContext
    THEN [called |-> TRUE, ret |-> FALSE, lastBeepTime |-> lbt, tone |-> FALSE]
    ELSE IF now - lbt < debounceMs
    THEN [called |-> TRUE, ret |-> FALSE, lastBeepTime |-> lbt, tone |-> FALSE]
    ELSE IF valid
    THEN [called |-> TRUE, ret |-> TRUE, lastBeepTime |-> now, tone |-> TRUE]
    ELSE [called |-> TRUE, ret |-> FALSE, lastBeepTime |-> now, tone |-> FALSE]

\* playBrakeAlert() debounced against a timestamp of its own that no other
\* beep sets
PlayBrakeAlert_OwnTimestamp == PlayBeep(isUnlocked, audioContext, 0, TRUE)

\* playBrakeAlert(): playBeep(880, 150, 'sine')
PlayBrakeAlert == PlayBeep(isUnlocked, audioContext, lastBeepTime, TRUE)

\* unlock() without `if (this.isUnlocked) return true`
UnlockEnter_NoEarlyReturn(ctorOk, st) ==
    IF ~ctorOk
    THEN [ret |-> "false", audioContext |-> audioContext, ctxState |-> ctxState,
          isUnlocked |-> isUnlocked, silentOn |-> NoContext]
    ELSE LET id == Len(ctxState) + 1
         IN IF st = "suspended"
            THEN [ret |-> "pending", audioContext |-> id,
                  ctxState |-> Append(ctxState, "suspended"),
                  isUnlocked |-> isUnlocked, silentOn |-> NoContext]
            ELSE [ret |-> "true", audioContext |-> id,
                  ctxState |-> Append(ctxState, "running"),
                  isUnlocked |-> TRUE, silentOn |-> id]

\* unlock() up to its first suspension point or its return.
\* ctorOk: new AudioContext() does not throw; st: the new context's state.
UnlockEnter(ctorOk, st) ==
    IF isUnlocked
    THEN [ret |-> "true", audioContext |-> audioContext, ctxState |-> ctxState,
          isUnlocked |-> TRUE, silentOn |-> NoContext]
    ELSE IF ~ctorOk
    THEN [ret |-> "false", audioContext |-> audioContext, ctxState |-> ctxState,
          isUnlocked |-> FALSE, silentOn |-> NoContext]
    ELSE LET id == Len(ctxState) + 1
         IN IF st = "suspended"
            THEN [ret |-> "pending", audioContext |-> id,
                  ctxState |-> Append(ctxState, "suspended"),
                  isUnlocked |-> FALSE, silentOn |-> NoContext]
            ELSE [ret |-> "true", audioContext |-> id,
                  ctxState |-> Append(ctxState, "running"),
                  isUnlocked |-> TRUE, silentOn |-> id]

\* unlock() from the settling of `await this.audioContext.resume()` on the
\* context ctx the call created, to its return.  ok: resume() fulfilled.
UnlockResume(ctx, ok) ==
    IF ok
    THEN [ret |-> "true", audioContext |-> audioContext,
          ctxState |-> [ctxState EXCEPT ![ctx] = "running"],
          isUnlocked |-> TRUE, silentOn |-> audioContext]
    ELSE [ret |-> "false", audioContext |-> audioContext, ctxState |-> ctxState,
          isUnlocked |-> isUnlocked, silentOn |-> NoContext]

\* the string a step reports for a playBeep outcome
BeepRet(b) == IF ~b.called THEN "none" ELSE IF b.ret THEN "true" ELSE "false"

\* record what a step did: op, the playBrakeAlert calls, the playBeep
\* outcome b, the return of unlock(), the context a silent buffer went to
\* and the onError call made
ReportError(op, alerts, b, uret, silent, error) ==
    /\ lastOp' = op
    /\ lastError' = error
    /\ alertCalls' = alerts
    /\ beepRet' = BeepRet(b)
    /\ toneStarted' = b.tone
    /\ unlockRet' = uret
    /\ silentOn' = silent
    /\ lastSuccessTime' = IF b.called /\ b.ret THEN Some(now) ELSE lastSuccessTime
    /\ alertRefused' = (alertRefused \/ (alerts > 0 /\ b.called /\ ~b.ret))

\* record what a step did that made no onError call
Report(op, alerts, b, uret, silent) == ReportError(op, alerts, b, uret, silent, None)

\* setDebounce(ms)
SetDebounce(ms) ==
    /\ debounceMs' = ms
    /\ UNCHANGED <<audioContext, isUnlocked, lastBeepTime, ctxState>>
    /\ UNCHANGED <<now, appVars, uiVars, wireVars, sensorVars, simVars, tasks>>
    /\ Report("setDebounce", 0, NoBeep, "none", NoContext)

\* a direct call of playBeep with arbitrary arguments
CallPlayBeep(valid) ==
    LET b == PlayBeep(isUnlocked, audioContext, lastBeepTime, valid)
    IN /\ lastBeepTime' = b.lastBeepTime
       /\ UNCHANGED <<audioContext, isUnlocked, debounceMs, ctxState>>
       /\ UNCHANGED <<now, appVars, uiVars, wireVars, sensorVars, simVars, tasks>>
       /\ Report("playBeep", 0, b, "none", NoContext)

\* a direct call of playBrakeAlert
CallPlayBrakeAlert ==
    LET b == PlayBrakeAlert
    IN /\ lastBeepTime' = b.lastBeepTime
       /\ UNCHANGED <<audioContext, isUnlocked, debounceMs, ctxState>>
       /\ UNCHANGED <<now, appVars, uiVars, wireVars, sensorVars, simVars, tasks>>
       /\ Report("playBrakeAlert", 1, b, "none", NoContext)

\* time passes; a timer that is due has run before the clock moves on
Tick ==
    /\ now + TimeStep <= MaxNow
    /\ \A k \in 1..Len(subs) : subs[k].probe = "armed" => subs[k].deadline > now
    /\ now' = now + TimeStep
    /\ UNCHANGED <<audioVars, appVars, uiVars, wireVars, sensorVars, simVars, tasks>>
    /\ Report("tick", 0, NoBeep, "none", NoContext)

----------------------------------------------------------------------------
(* VelocitatsApp: sample handlers *)

\* bearingToCardinal with Math.floor in place of Math.round
bearingToCardinal_Floor(bearing) ==
    LET directions == <<"N", "NE", "E", "SE", "S", "SW", "W", "NW", "N">>
        index == bearing \div 45
    IN directions[index + 1]

\* SensorManager.bearingToCardinal: directions[Math.round(bearing / 45)]
bearingToCardinal(bearing) ==
    LET directions == <<"N", "NE", "E", "SE", "S", "SW", "W", "NW", "N">>
        index == (2 * bearing + 45) \div 90
    IN directions[index + 1]

\* updateVelocityArrow with rotation = currentAzimuth - currentBearing
updateVelocityArrow_Swapped(speed, bearing, azimuth) ==
    /\ velocityRotation' = Some(Normalize(azimuth - bearing))
    /\ arrowLength' = Some(ArrowLength(speed))

\* updateVelocityArrow() for the given speed, bearing and azimuth
updateVelocityArrow(speed, bearing, azimuth) ==
    /\ velocityRotation' = Some(Normalize(bearing - azimuth))
    /\ arrowLength' = Some(ArrowLength(speed))

\* handleGpsUpdate(data), data = [latitude, longitude, speed, bearing] with
\* speed and bearing optional
handleGpsUpdate(data) ==
    /\ currentSpeed' = OrZero(data.speed)
    /\ currentBearing' = OrZero(data.bearing)
    /\ bearingText' = IF data.bearing # None
                      THEN Some(<<data.bearing[1], bearingToCardinal(data.bearing[1])>>)
                      ELSE bearingText
    /\ latitudeText' = Some(toDMS(data.latitude, TRUE))
    /\ longitudeText' = Some(toDMS(data.longitude, FALSE))
    /\ updateVelocityArrow(OrZero(data.speed), OrZero(data.bearing), currentAzimuth)
    /\ UNCHANGED <<isSimulating, SPEED_THRESHOLD, BRAKE_THRESHOLD, currentAzimuth,
                   currentAcceleration, isBraking, brakeIndicatorHidden,
                   northRotation>>

\* isFinite(data.azimuth): an azimuth is [kind, value], kind "finite" for
\* a number of whole degrees, else "NaN", "Infinity", "-Infinity" or
\* "undefined" (value is then unused)
IsFinite(azimuth) == azimuth.kind = "finite"

\* handleOrientationUpdate reading an unusable azimuth as 0
\* (data.azimuth || 0 in place of the isFinite test)
handleOrientationUpdate_ZeroForInvalid(data) ==
    LET azimuth == IF IsFinite(data.azimuth) THEN Normalize(data.azimuth.value) ELSE 0
    IN /\ currentAzimuth' = azimuth
       /\ northRotation' = Some(-azimuth)
       /\ updateVelocityArrow(currentSpeed, currentBearing, azimuth)
       /\ UNCHANGED <<isSimulating, SPEED_THRESHOLD, BRAKE_THRESHOLD, currentSpeed,
                      currentBearing, currentAcceleration, isBraking>>
       /\ UNCHANGED <<brakeIndicatorHidden, bearingText, latitudeText, longitudeText>>

\* handleOrientationUpdate(data), data = [azimuth]
handleOrientationUpdate(data) ==
    IF ~IsFinite(data.azimuth)
    THEN UNCHANGED <<appVars, uiVars>>
    ELSE LET azimuth == Normalize(data.azimuth.value)
         IN /\ currentAzimuth' = azimuth
            /\ northRotation' = Some(-azimuth)
            /\ updateVelocityArrow(currentSpeed, currentBearing, azimuth)
            /\ UNCHANGED <<isSimulating, SPEED_THRESHOLD, BRAKE_THRESHOLD, currentSpeed,
                           currentBearing, currentAcceleration, isBraking>>
            /\ UNCHANGED <<brakeIndicatorHidden, bearingText, latitudeText,
                           longitudeText>>

\* checkBraking with non-strict comparisons
checkBraking_NonStrict(forwardAccel) ==
    LET isMoving == currentSpeed >= SPEED_THRESHOLD
        isHardBraking == forwardAccel <= BRAKE_THRESHOLD
    IN IF isMoving /\ isHardBraking
       THEN IF ~isBraking
            THEN [isBraking |-> TRUE, alerts |-> 1, hidden |-> FALSE]
            ELSE [isBraking |-> isBraking, alerts |-> 0, hidden |-> brakeIndicatorHidden]
       ELSE IF isBraking
            THEN [isBraking |-> FALSE, alerts |-> 0, hidden |-> TRUE]
            ELSE [isBraking |-> isBraking, alerts |-> 0, hidden |-> brakeIndicatorHidden]

\* checkBraking that alerts on every qualifying sample (no `!this.isBraking`
\* test around the alert)
checkBraking_AlertEverySample(forwardAccel) ==
    LET isMoving == currentSpeed > SPEED_THRESHOLD
        isHardBraking == forwardAccel < BRAKE_THRESHOLD
    IN IF isMoving /\ isHardBraking
       THEN [isBraking |-> TRUE, alerts |-> 1, hidden |-> FALSE]
       ELSE IF isBraking
            THEN [isBraking |-> FALSE, alerts |-> 0, hidden |-> TRUE]
            ELSE [isBraking |-> isBraking, alerts |-> 0, hidden |-> brakeIndicatorHidden]

\* checkBraking without its else branch (BRAKING is never left)
checkBraking_NoExit(forwardAccel) ==
    LET isMoving == currentSpeed > SPEED_THRESHOLD
        isHardBraking == forwardAccel < BRAKE_THRESHOLD
    IN IF isMoving /\ isHardBraking /\ ~isBraking
       THEN [isBraking |-> TRUE, alerts |-> 1, hidden |-> FALSE]
       ELSE [isBraking |-> isBraking, alerts |-> 0, hidden |-> brakeIndicatorHidden]

\* checkBraking(forwardAccel) when this.currentSpeed is speed: the new
\* isBraking, the number of playBrakeAlert calls made, and whether the
\* indicator is hidden afterwards
checkBrakingAt(speed, forwardAccel) ==
    LET isMoving == speed > SPEED_THRESHOLD
        isHardBraking == forwardAccel < BRAKE_THRESHOLD
    IN IF isMoving /\ isHardBraking
       THEN IF ~isBraking
            THEN [isBraking |-> TRUE, alerts |-> 1, hidden |-> FALSE]
            ELSE [isBraking |-> isBraking, alerts |-> 0, hidden |-> brakeIndicatorHidden]
       ELSE IF isBraking
            THEN [isBraking |-> FALSE, alerts |-> 0, hidden |-> TRUE]
            ELSE [isBraking |-> isBraking, alerts |-> 0, hidden |-> brakeIndicatorHidden]

\* checkBraking(forwardAccel)
checkBraking(forwardAccel) == checkBrakingAt(currentSpeed, forwardAccel)

\* handleMotionUpdate(data), data = [forward]
handleMotionUpdate(data) ==
    LET c == checkBraking(data.forward)
        b == IF c.alerts > 0 THEN PlayBrakeAlert ELSE NoBeep
    IN /\ currentAcceleration' = data.forward
       /\ isBraking' = c.isBraking
       /\ brakeIndicatorHidden' = c.hidden
       /\ lastBeepTime' = b.lastBeepTime
       /\ Report("motion", c.alerts, b, "none", NoContext)
       /\ UNCHANGED <<isSimulating, SPEED_THRESHOLD, BRAKE_THRESHOLD, currentSpeed,
                      currentBearing, currentAzimuth>>
       /\ UNCHANGED <<bearingText, latitudeText, longitudeText, northRotation,
                      velocityRotation, arrowLength>>
       /\ UNCHANGED <<audioContext, isUnlocked, debounceMs, ctxState>>

\* a data source wired by start() delivers a position sample
SourceGps(data) ==
    /\ simWired \/ liveWired
    /\ handleGpsUpdate(data)
    /\ UNCHANGED <<audioVars, now, wireVars, sensorVars, simVars, tasks>>
    /\ Report("gps", 0, NoBeep, "none", NoContext)

\* a data source wired by start() delivers an orientation sample
SourceOrientation(data) ==
    /\ simWired \/ liveWired
    /\ handleOrientationUpdate(data)
    /\ UNCHANGED <<audioVars, now, wireVars, sensorVars, simVars, tasks>>
    \* the handler's console.warn on an unusable azimuth is the step's output
    /\ Report(IF IsFinite(data.azimuth) THEN "orientation" ELSE "orientationInvalid",
              0, NoBeep, "none", NoContext)

\* a data source wired by start() delivers a motion sample
SourceMotion(data) ==
    /\ simWired \/ liveWired
    /\ handleMotionUpdate(data)
    /\ UNCHANGED <<now, wireVars, sensorVars, simVars, tasks>>

\* ionChange on the speed threshold slider
SpeedSlider(v) ==
    /\ SPEED_THRESHOLD' = v
    /\ UNCHANGED <<isSimulating, BRAKE_THRESHOLD, currentSpeed, currentBearing,
                   currentAzimuth, currentAcceleration, isBraking>>
    /\ UNCHANGED <<audioVars, now, uiVars, wireVars, sensorVars, simVars, tasks>>
    /\ Report("speedSlider", 0, NoBeep, "none", NoContext)

\* ionChange on the brake threshold slider
BrakeSlider(v) ==
    /\ BRAKE_THRESHOLD' = v
    /\ UNCHANGED <<isSimulating, SPEED_THRESHOLD, currentSpeed, currentBearing,
                   currentAzimuth, currentAcceleration, isBraking>>
    /\ UNCHANGED <<audioVars, now, uiVars, wireVars, sensorVars, simVars, tasks>>
    /\ Report("brakeSlider", 0, NoBeep, "none", NoContext)

----------------------------------------------------------------------------
(* SensorSimulator *)

\* the simulator's fields and the platform's interval timers after start()
\* without `if (this.isRunning) return`
SimulatorStart_NoGuard ==
    [isRunning |-> TRUE, intervalId |-> timerIds + 1, timerIds |-> timerIds + 1,
     activeIntervals |-> activeIntervals \cup {timerIds + 1}]

\* the simulator's fields and the platform's interval timers after start()
SimulatorStart ==
    IF isRunning
    THEN [isRunning |-> isRunning, intervalId |-> intervalId, timerIds |-> timerIds,
          activeIntervals |-> activeIntervals]
    ELSE [isRunning |-> TRUE, intervalId |-> timerIds + 1, timerIds |-> timerIds + 1,
          activeIntervals |-> activeIntervals \cup {timerIds + 1}]

\* start() as part of a step: no more than MaxTimers timers are created
StartSimulator ==
    /\ SimulatorStart.timerIds <= MaxTimers
    /\ isRunning' = SimulatorStart.isRunning
    /\ intervalId' = SimulatorStart.intervalId
    /\ timerIds' = SimulatorStart.timerIds
    /\ activeIntervals' = SimulatorStart.activeIntervals
    /\ UNCHANGED <<scenario, scenarioTime, simSpeed, simBearing, simAzimuth,
                   simAcceleration, simLatitude, simLongitude>>

\* a direct call of start() (op "simStart") or of initialize() (op
\* "simInitialize"), which calls start() and returns
CallSimStart(op) ==
    /\ StartSimulator
    /\ UNCHANGED <<audioVars, now, appVars, uiVars, wireVars, sensorVars, tasks>>
    /\ Report(op, 0, NoBeep, "none", NoContext)

\* a direct call of stop()
CallSimStop ==
    /\ activeIntervals' = IF intervalId # NoInterval
                          THEN activeIntervals \ {intervalId}
                          ELSE activeIntervals
    /\ intervalId' = NoInterval
    /\ isRunning' = FALSE
    /\ UNCHANGED <<scenario, scenarioTime, simSpeed, simBearing, simAzimuth,
                   simAcceleration, simLatitude, simLongitude, timerIds>>
    /\ UNCHANGED <<audioVars, now, appVars, uiVars, wireVars, sensorVars, tasks>>
    /\ Report("simStop", 0, NoBeep, "none", NoContext)

\* triggerBrake()
TriggerBrake ==
    /\ scenario' = "brake"
    /\ scenarioTime' = 0
    /\ UNCHANGED <<isRunning, intervalId, simSpeed, simBearing, simAzimuth,
                   simAcceleration, simLatitude, simLongitude, timerIds,
                   activeIntervals>>
    /\ UNCHANGED <<audioVars, now, appVars, uiVars, wireVars, sensorVars, tasks>>
    /\ Report("triggerBrake", 0, NoBeep, "none", NoContext)

\* What the random and the transcendental parts of a tick can give, at the
\* resolution of the model.  Math.sin(this.time * 0.5) * 0.5 lies in
\* [-0.5, 0.5]; the drifts Math.sin(..) * 0.5 and Math.sin(..) * 0.3 are
\* below one degree, so a whole-degree bearing or azimuth moves by -1, 0 or
\* +1; leave is the outcome of scenarioTime > 8 + Math.random() * 4 where
\* the random number decides it, brake the one of Math.random() > 0.3; a
\* position that advances lands on one of SimPositions.
CruiseAccelerations == {-5, 5}
Drifts == {-1, 0, 1}
\* the drift is followed across 0/360: values of bearing and azimuth before
\* their normalization
SimAngles == {-1, 0, 359, 360}
SimPositions == {<<148986, 7824>>, <<148987, 7825>>}
Randoms == [acceleration : CruiseAccelerations, bearingDrift : Drifts,
            azimuthDrift : Drifts, leave : BOOLEAN, brake : BOOLEAN,
            position : SimPositions]
\* one outcome for each part
QuietRandom == [acceleration |-> 5, bearingDrift |-> 0, azimuthDrift |-> 0,
                leave |-> TRUE, brake |-> TRUE, position |-> <<148987, 7825>>]
\* rnd differs from QuietRandom only in parts the coming tick reads
Relevant(rnd) ==
    /\ scenario # "cruise" =>
          /\ rnd.acceleration = QuietRandom.acceleration
          /\ rnd.bearingDrift = QuietRandom.bearingDrift
          /\ rnd.azimuthDrift = QuietRandom.azimuthDrift
    /\ (scenario # "cruise" \/ scenarioTime + 1 < CruiseMinTicks
           \/ scenarioTime + 1 >= CruiseMaxTicks) => rnd.leave = QuietRandom.leave
    /\ (scenario # "cruise" \/ scenarioTime + 1 < CruiseMinTicks
           \/ (scenarioTime + 1 < CruiseMaxTicks /\ ~rnd.leave)) =>
          rnd.brake = QuietRandom.brake

\* case 'accelerate' without Math.min(..., 15)
caseAccelerate_NoCap(st) ==
    LET over == st >= AccelerateTicks
    IN [scenario |-> IF over THEN "cruise" ELSE "accelerate",
        scenarioTime |-> IF over THEN 0 ELSE st,
        speed |-> simSpeed + 5, acceleration |-> 25,
        bearing |-> simBearing, azimuth |-> simAzimuth]

\* case 'accelerate' of updateScenario, scenarioTime being st ticks
caseAccelerate(st) ==
    LET speed == IF simSpeed + 5 < SimMaxSpeed THEN simSpeed + 5 ELSE SimMaxSpeed
        over == st >= AccelerateTicks
    IN [scenario |-> IF over THEN "cruise" ELSE "accelerate",
        scenarioTime |-> IF over THEN 0 ELSE st,
        speed |-> speed, acceleration |-> 25,
        bearing |-> simBearing, azimuth |-> simAzimuth]

\* case 'cruise' that leaves as soon as the random test says so
\* (scenarioTime > Math.random() * 12)
caseCruise_NoMinimumDwell(st, rnd) ==
    LET over == IF st >= CruiseMaxTicks THEN TRUE ELSE rnd.leave
    IN [scenario |-> IF ~over THEN "cruise"
                     ELSE IF rnd.brake THEN "brake" ELSE "accelerate",
        scenarioTime |-> IF over THEN 0 ELSE st,
        speed |-> simSpeed, acceleration |-> rnd.acceleration,
        bearing |-> simBearing + rnd.bearingDrift,
        azimuth |-> simAzimuth + rnd.azimuthDrift]

\* case 'cruise' of updateScenario
caseCruise(st, rnd) ==
    LET over == IF st < CruiseMinTicks THEN FALSE
                ELSE IF st >= CruiseMaxTicks THEN TRUE
                ELSE rnd.leave
    IN [scenario |-> IF ~over THEN "cruise"
                     ELSE IF rnd.brake THEN "brake" ELSE "accelerate",
        scenarioTime |-> IF over THEN 0 ELSE st,
        speed |-> simSpeed, acceleration |-> rnd.acceleration,
        bearing |-> simBearing + rnd.bearingDrift,
        azimuth |-> simAzimuth + rnd.azimuthDrift]

\* case 'brake' that leaves the scenario without `this.scenarioTime = 0`
caseBrake_NoTimerReset(st) ==
    LET speed == IF simSpeed - 25 > 0 THEN simSpeed - 25 ELSE 0
        over == st >= BrakeTicks \/ speed <= 0
    IN [scenario |-> IF ~over THEN "brake"
                     ELSE IF speed <= 0 THEN "stop" ELSE "cruise",
        scenarioTime |-> st,
        speed |-> speed, acceleration |-> -70,
        bearing |-> simBearing, azimuth |-> simAzimuth]

\* case 'brake' that takes 0.2 m/s off the speed per tick
caseBrake_Gentle(st) ==
    LET speed == IF simSpeed - 2 > 0 THEN simSpeed - 2 ELSE 0
        over == st >= BrakeTicks \/ speed <= 0
    IN [scenario |-> IF ~over THEN "brake"
                     ELSE IF speed <= 0 THEN "stop" ELSE "cruise",
        scenarioTime |-> IF over THEN 0 ELSE st,
        speed |-> speed, acceleration |-> -70,
        bearing |-> simBearing, azimuth |-> simAzimuth]

\* case 'brake' of updateScenario
caseBrake(st) ==
    LET speed == IF simSpeed - 25 > 0 THEN simSpeed - 25 ELSE 0
        over == st >= BrakeTicks \/ speed <= 0
    IN [scenario |-> IF ~over THEN "brake"
                     ELSE IF speed <= 0 THEN "stop" ELSE "cruise",
        scenarioTime |-> IF over THEN 0 ELSE st,
        speed |-> speed, acceleration |-> -70,
        bearing |-> simBearing, azimuth |-> simAzimuth]

\* case 'stop' that goes on to 'brake'
caseStop_ToBrake(st) ==
    LET over == st >= StopTicks
    IN [scenario |-> IF over THEN "brake" ELSE "stop",
        scenarioTime |-> IF over THEN 0 ELSE st,
        speed |-> 0, acceleration |-> 0,
        bearing |-> simBearing, azimuth |-> simAzimuth]

\* case 'stop' of updateScenario
caseStop(st) ==
    LET over == st >= StopTicks
    IN [scenario |-> IF over THEN "accelerate" ELSE "stop",
        scenarioTime |-> IF over THEN 0 ELSE st,
        speed |-> 0, acceleration |-> 0,
        bearing |-> simBearing, azimuth |-> simAzimuth]

\* updateScenario() without the two normalizing assignments at its end
updateScenario_NoNormalize(st, rnd) ==
    CASE scenario = "accelerate" -> caseAccelerate(st)
      [] scenario = "cruise" -> caseCruise(st, rnd)
      [] scenario = "brake" -> caseBrake(st)
      [] scenario = "stop" -> caseStop(st)

\* updateScenario() after tick() has brought scenarioTime to st ticks, with
\* the random outcomes rnd: the new scenario, scenarioTime, speed,
\* acceleration, bearing and azimuth
updateScenario(st, rnd) ==
    LET c == CASE scenario = "accelerate" -> caseAccelerate(st)
               [] scenario = "cruise" -> caseCruise(st, rnd)
               [] scenario = "brake" -> caseBrake(st)
               [] scenario = "stop" -> caseStop(st)
    IN [c EXCEPT !.bearing = Normalize(c.bearing), !.azimuth = Normalize(c.azimuth)]

\* updatePosition without `if (this.speed <= 0) return`
updatePosition_NoSpeedTest(speed, rnd) == rnd.position

\* updatePosition() at the given speed: <<latitude, longitude>> afterwards
updatePosition(speed, rnd) ==
    IF speed <= 0 THEN <<simLatitude, simLongitude>> ELSE rnd.position

\* sendUpdates() with the motion block first: handleMotionUpdate runs on
\* the speed of the tick before
sendUpdates_MotionFirst(gps, azimuth, forward) ==
    IF ~simWired
    THEN /\ UNCHANGED <<audioVars, appVars, uiVars>>
         /\ Report("simTick", 0, NoBeep, "none", NoContext)
    ELSE LET c == checkBrakingAt(currentSpeed, forward)
             b == IF c.alerts > 0 THEN PlayBrakeAlert ELSE NoBeep
         IN /\ currentSpeed' = OrZero(Some(gps.speed))
            /\ currentBearing' = OrZero(Some(gps.bearing))
            /\ bearingText' = Some(<<gps.bearing, bearingToCardinal(gps.bearing)>>)
            /\ latitudeText' = Some(toDMS(gps.latitude, TRUE))
            /\ longitudeText' = Some(toDMS(gps.longitude, FALSE))
            /\ currentAzimuth' = Normalize(azimuth)
            /\ northRotation' = Some(-Normalize(azimuth))
            /\ updateVelocityArrow(gps.speed, gps.bearing, Normalize(azimuth))
            /\ currentAcceleration' = forward
            /\ isBraking' = c.isBraking
            /\ brakeIndicatorHidden' = c.hidden
            /\ lastBeepTime' = b.lastBeepTime
            /\ Report("simTick", c.alerts, b, "none", NoContext)
            /\ UNCHANGED <<isSimulating, SPEED_THRESHOLD, BRAKE_THRESHOLD>>
            /\ UNCHANGED <<audioContext, isUnlocked, debounceMs, ctxState>>

\* sendUpdates(): the callbacks start(true) registered on the simulator run
\* in the order position, orientation, motion, each on the state the one
\* before it left: handleGpsUpdate(gps), handleOrientationUpdate with a
\* finite azimuth, handleMotionUpdate(forward)
sendUpdates(gps, azimuth, forward) ==
    IF ~simWired
    THEN /\ UNCHANGED <<audioVars, appVars, uiVars>>
         /\ Report("simTick", 0, NoBeep, "none", NoContext)
    ELSE LET c == checkBrakingAt(gps.speed, forward)
             b == IF c.alerts > 0 THEN PlayBrakeAlert ELSE NoBeep
         IN /\ currentSpeed' = OrZero(Some(gps.speed))
            /\ currentBearing' = OrZero(Some(gps.bearing))
            /\ bearingText' = Some(<<gps.bearing, bearingToCardinal(gps.bearing)>>)
            /\ latitudeText' = Some(toDMS(gps.latitude, TRUE))
            /\ longitudeText' = Some(toDMS(gps.longitude, FALSE))
            /\ currentAzimuth' = Normalize(azimuth)
            /\ northRotation' = Some(-Normalize(azimuth))
            /\ updateVelocityArrow(gps.speed, gps.bearing, Normalize(azimuth))
            /\ currentAcceleration' = forward
            /\ isBraking' = c.isBraking
            /\ brakeIndicatorHidden' = c.hidden
            /\ lastBeepTime' = b.lastBeepTime
            /\ Report("simTick", c.alerts, b, "none", NoContext)
            /\ UNCHANGED <<isSimulating, SPEED_THRESHOLD, BRAKE_THRESHOLD>>
            /\ UNCHANGED <<audioContext, isUnlocked, debounceMs, ctxState>>

\* the interval timer fires: tick()
SimTick(rnd) ==
    /\ activeIntervals # {}
    /\ Relevant(rnd)
    /\ scenario = "cruise" =>
          /\ simBearing + rnd.bearingDrift \in SimAngles
          /\ simAzimuth + rnd.azimuthDrift \in SimAngles
    /\ LET u == updateScenario(scenarioTime + 1, rnd)
           pos == updatePosition(u.speed, rnd)
       IN /\ scenario' = u.scenario
          /\ scenarioTime' = u.scenarioTime
          /\ simSpeed' = u.speed
          /\ simAcceleration' = u.acceleration
          /\ simBearing' = u.bearing
          /\ simAzimuth' = u.azimuth
          /\ simLatitude' = pos[1]
          /\ simLongitude' = pos[2]
          /\ sendUpdates([latitude |-> pos[1], longitude |-> pos[2],
                          speed |-> u.speed, bearing |-> u.bearing],
                         u.azimuth, u.acceleration)
    /\ UNCHANGED <<isRunning, intervalId, timerIds, activeIntervals>>
    /\ UNCHANGED <<now, wireVars, sensorVars, tasks>>

----------------------------------------------------------------------------
(* SensorManager: what initialize() and startGps() do around their awaits *)

\* what initialize() finds on the platform: ios, DeviceMotionEvent has a
\* requestPermission function; absolute, window has
\* ondeviceorientationabsolute
Platforms == [ios : BOOLEAN, absolute : BOOLEAN]

\* the listener and the 2 s timer a startMotion() or startOrientation()
\* call made now sets up
NewSub(channel, usingAbsolute) ==
    [channel |-> channel, usingAbsolute |-> usingAbsolute,
     hasReceivedData |-> FALSE, deadline |-> now + ProbeMs, probe |-> "armed"]

\* startMotion()
startMotion(ss) == Append(ss, NewSub("motion", FALSE))

\* startOrientation() on platform p
startOrientation(ss, p) == Append(ss, NewSub("orientation", p.absolute))

\* an onError(sensor, message) call where onError is set (wired), none
\* where it is null
onErrorCall(wired, sensor, message) ==
    IF wired THEN Some([sensor |-> sensor, message |-> message]) ELSE None

\* handleError(sensor, message): the onError call made, start(false)
\* having set onError or not
handleError(sensor, message) == onErrorCall(liveWired, sensor, message)

\* the codes of a GeolocationPositionError, and one that is none of them
GpsErrorCodes == {"PERMISSION_DENIED", "POSITION_UNAVAILABLE", "TIMEOUT", "other"}

\* the message the error callback of watchPosition rejects with
GpsMessage(code) ==
    CASE code = "PERMISSION_DENIED" -> "Location permission denied"
      [] code = "POSITION_UNAVAILABLE" -> "Location unavailable"
      [] code = "TIMEOUT" -> "Location request timed out"
      [] OTHER -> "Unknown GPS error"

\* initialize() with `await this.startGps()` outside any try block: the
\* rejection leaves initialize() and start()
initializeCatch_Rethrow(wired, message) == [error |-> None, continues |-> FALSE]

\* the catch block of initialize() around `await this.startGps()`: the
\* onError call it makes, and whether initialize() goes on after it
initializeCatch(wired, message) ==
    [error |-> onErrorCall(wired, "gps", message), continues |-> TRUE]

\* where initialize() is next suspended after startGps() has settled on
\* platform p: on its first permission request where there is one to make,
\* else (after startMotion() and startOrientation(), its return and
\* updateStatusIndicator) in start() on the wake lock request
AfterGps(p) == IF p.ios THEN "awaitMotionPermission" ELSE "awaitWake"

\* the listeners after the part of initialize() that follows startGps()
\* up to that suspension
SubsAfterGps(ss, p) == IF p.ios THEN ss ELSE startOrientation(startMotion(ss), p)

----------------------------------------------------------------------------
(* Button clicks and the async functions they start.                       *)
(* kind "start":    click on startBtn,     start(false)                    *)
(* kind "simulate": click on simulateBtn,  start(true)                     *)
(* kind "test":     click on testSoundBtn, unlock() then playBeep          *)
(* kind "unlock":   a bare call of AudioEngine.unlock()                    *)
(* A task runs without interruption from one await to the next; an await   *)
(* of an already settled promise is not a point where an event handler can *)
(* run, so the code after it belongs to the same step.                     *)

\* the caller's code after `await this.audio.unlock()` has returned u.ret,
\* up to the caller's next suspension on the platform.  geo: the platform
\* has navigator.geolocation; p: what initialize() finds on the platform
\* when startGps() has rejected at once.  A task's gps is results.gps of
\* its initialize() call.
AfterUnlockOn(i, kind, u, op, geo, p) ==
    LET b == IF kind = "test" \/ (kind \in {"start", "simulate"} /\ u.ret = "true")
             THEN PlayBeep(u.isUnlocked, u.audioContext, lastBeepTime, TRUE)
             ELSE NoBeep
        c == initializeCatch(TRUE, "Geolocation not supported")
    IN /\ lastBeepTime' = b.lastBeepTime
       /\ lastPosition' = lastPosition
       /\ CASE kind = "simulate" ->
                 \* callbacks on the simulator; simulator.initialize();
                 \* await requestWakeLock()
                 /\ simWired' = TRUE
                 /\ StartSimulator
                 /\ UNCHANGED <<liveWired, gpsWatchId, liveVars>>
                 /\ tasks' = [tasks EXCEPT ![i] = [kind |-> kind, pc |-> "awaitWake",
                                                   ctx |-> NoContext, watch |-> NoWatch,
                                                   gps |-> TRUE]]
                 /\ Report(op, 0, b, u.ret, u.silentOn)
            [] kind = "start" /\ geo ->
                 \* callbacks on the SensorManager; sensors.initialize():
                 \* await startGps(), which registers the position watch
                 /\ geolocation \in {None, Some(TRUE)}
                 /\ geolocation' = Some(TRUE)
                 /\ liveWired' = TRUE
                 /\ simWired' = simWired
                 /\ gpsWatchId' = watchIds + 1
                 /\ watchIds' = watchIds + 1
                 /\ activeWatches' = activeWatches \cup {watchIds + 1}
                 /\ liveStopped' = FALSE
                 /\ UNCHANGED <<subs, platform, simVars>>
                 /\ tasks' = [tasks EXCEPT ![i] = [kind |-> kind, pc |-> "awaitGps",
                                                   ctx |-> NoContext,
                                                   watch |-> watchIds + 1,
                                                   gps |-> FALSE]]
                 /\ Report(op, 0, b, u.ret, u.silentOn)
            [] kind = "start" /\ ~geo ->
                 \* callbacks on the SensorManager; sensors.initialize():
                 \* startGps() rejects without registering a watch, and
                 \* initialize() goes on from its catch block
                 /\ geolocation \in {None, Some(FALSE)}
                 /\ platform \in {None, Some(p)}
                 /\ geolocation' = Some(FALSE)
                 /\ platform' = Some(p)
                 /\ liveWired' = TRUE
                 /\ simWired' = simWired
                 /\ liveStopped' = FALSE
                 /\ UNCHANGED <<gpsWatchId, watchIds, activeWatches, simVars>>
                 /\ subs' = IF c.continues THEN SubsAfterGps(subs, p) ELSE subs
                 /\ tasks' = [tasks EXCEPT ![i] = [kind |-> kind,
                                                   pc |-> IF c.continues THEN AfterGps(p)
                                                          ELSE "aborted",
                                                   ctx |-> NoContext, watch |-> NoWatch,
                                                   gps |-> FALSE]]
                 /\ ReportError(op, 0, b, u.ret, u.silentOn, c.error)
            [] OTHER ->
                 /\ UNCHANGED <<simWired, liveWired, gpsWatchId, liveVars, simVars>>
                 /\ tasks' = [tasks EXCEPT ![i] = [kind |-> "none", pc |-> "done",
                                                   ctx |-> NoContext, watch |-> NoWatch,
                                                   gps |-> FALSE]]
                 /\ Report(op, 0, b, u.ret, u.silentOn)

\* a platform without permission requests and without
\* ondeviceorientationabsolute
PlainPlatform == [ios |-> FALSE, absolute |-> FALSE]

\* the same on a platform that has navigator.geolocation
AfterUnlock(i, kind, u, op) == AfterUnlockOn(i, kind, u, op, TRUE, PlainPlatform)

\* a click (or call) of the given kind: the handler up to its first
\* suspension on the platform
ClickOn(kind, ctorOk, st, geo, p) ==
    \E i \in 1..MaxTasks :
        /\ tasks[i].pc = "free"
        /\ \A j \in 1..(i - 1) : tasks[j].pc # "free"
        /\ LET u == UnlockEnter(ctorOk, st)
           IN /\ audioContext' = u.audioContext
              /\ ctxState' = u.ctxState
              /\ isUnlocked' = u.isUnlocked
              /\ isSimulating' = IF kind = "start" THEN FALSE
                                 ELSE IF kind = "simulate" THEN TRUE
                                 ELSE isSimulating
              /\ IF u.ret = "pending"
                 THEN /\ tasks' = [tasks EXCEPT ![i] = [kind |-> kind, pc |-> "awaitResume",
                                                        ctx |-> u.audioContext,
                                                        watch |-> NoWatch,
                                                        gps |-> FALSE]]
                      /\ UNCHANGED <<lastBeepTime, wireVars, sensorVars, simVars>>
                      /\ Report("click", 0, NoBeep, "pending", NoContext)
                 ELSE AfterUnlockOn(i, kind, u, "click", geo, p)
        /\ UNCHANGED <<debounceMs, now, uiVars>>
        /\ UNCHANGED <<SPEED_THRESHOLD, BRAKE_THRESHOLD, currentSpeed, currentBearing,
                       currentAzimuth, currentAcceleration, isBraking>>

\* a click on a platform that has navigator.geolocation
Click(kind, ctorOk, st) == ClickOn(kind, ctorOk, st, TRUE, PlainPlatform)

\* the resume() promise a suspended unlock() awaits settles
ResumeSettledOn(i, ok, geo, p) ==
    /\ tasks[i].pc = "awaitResume"
    /\ LET u == UnlockResume(tasks[i].ctx, ok)
       IN /\ audioContext' = u.audioContext
          /\ ctxState' = u.ctxState
          /\ isUnlocked' = u.isUnlocked
          /\ AfterUnlockOn(i, tasks[i].kind, u, "resume", geo, p)
    /\ UNCHANGED <<debounceMs, now, appVars, uiVars>>

\* the same on a platform that has navigator.geolocation
ResumeSettled(i, ok) == ResumeSettledOn(i, ok, TRUE, PlainPlatform)

\* the wake lock request awaited by start() settles; the dashboard is shown
WakeSettled(i) ==
    /\ tasks[i].pc = "awaitWake"
    /\ tasks' = [tasks EXCEPT ![i] = [kind |-> "none", pc |-> "done",
                                      ctx |-> NoContext, watch |-> NoWatch,
                                      gps |-> tasks[i].gps]]
    /\ UNCHANGED <<audioVars, now, appVars, uiVars, wireVars, sensorVars, simVars>>
    /\ Report("wake", 0, NoBeep, "none", NoContext)

----------------------------------------------------------------------------
(* SensorManager: the position watch registered by startGps() *)

\* the sample the watchPosition success callback builds from a platform
\* position = [latitude, longitude, speed, heading], speed/heading optional
LastPositionOf(position) ==
    [latitude |-> position.latitude,
     longitude |-> position.longitude,
     speed |-> Some(OrZero(position.speed)),
     bearing |-> Some(OrZero(position.heading))]

\* the success callback of watch w runs on a platform position event, on
\* platform p; resolve() lets the initialize() that awaits this watch's
\* promise go on: to its first permission request where there is one to
\* make, else through startMotion() and startOrientation() to its return,
\* and start() to its request of the wake lock
PositionEventOn(w, position, p) ==
    LET waiting == {i \in 1..MaxTasks : tasks[i].pc = "awaitGps" /\ tasks[i].watch = w}
    IN /\ w \in activeWatches
       /\ platform \in {None, Some(p)}
       /\ lastPosition' = Some(LastPositionOf(position))
       /\ IF liveWired
          THEN handleGpsUpdate(LastPositionOf(position))
          ELSE UNCHANGED <<appVars, uiVars>>
       /\ tasks' = [i \in 1..MaxTasks |->
                       IF i \in waiting
                       THEN [tasks[i] EXCEPT !.pc = AfterGps(p), !.gps = TRUE]
                       ELSE tasks[i]]
       /\ platform' = IF waiting # {} THEN Some(p) ELSE platform
       /\ subs' = IF waiting # {} THEN SubsAfterGps(subs, p) ELSE subs
       /\ UNCHANGED <<gpsWatchId, watchIds, activeWatches, liveStopped, geolocation>>
       /\ UNCHANGED <<audioVars, now, wireVars, simVars>>
       /\ Report("position", 0, NoBeep, "none", NoContext)

\* the error callback of watch w runs with the given error code, on
\* platform p: reject() settles the promise of the startGps() call that
\* registered w if it is still pending, and the initialize() awaiting it
\* goes on from its catch block; on a settled promise reject() does nothing
GpsErrorOn(w, code, p) ==
    LET waiting == {i \in 1..MaxTasks : tasks[i].pc = "awaitGps" /\ tasks[i].watch = w}
        c == initializeCatch(liveWired, GpsMessage(code))
    IN /\ w \in activeWatches
       /\ platform \in {None, Some(p)}
       /\ tasks' = [i \in 1..MaxTasks |->
                       IF i \in waiting
                       THEN [tasks[i] EXCEPT !.pc = IF c.continues THEN AfterGps(p)
                                                    ELSE "aborted"]
                       ELSE tasks[i]]
       /\ platform' = IF waiting # {} THEN Some(p) ELSE platform
       /\ subs' = IF waiting # {} /\ c.continues THEN SubsAfterGps(subs, p) ELSE subs
       /\ UNCHANGED <<gpsWatchId, lastPosition, watchIds, activeWatches, liveStopped,
                      geolocation>>
       /\ UNCHANGED <<audioVars, now, appVars, uiVars, wireVars, simVars>>
       /\ ReportError("positionError", 0, NoBeep, "none", NoContext,
                      IF waiting # {} THEN c.error ELSE None)

\* the success callback of watch w runs on a platform position event
PositionEvent(w, position) ==
    \E p \in Platforms : PositionEventOn(w, position, p)

\* DeviceMotionEvent.requestPermission() awaited by initialize() settles:
\* "granted", "denied", or "error" when the promise is rejected
MotionPermissionSettled(i, outcome) ==
    /\ tasks[i].pc = "awaitMotionPermission"
    /\ subs' = IF outcome = "granted" THEN startMotion(subs) ELSE subs
    /\ tasks' = [tasks EXCEPT ![i].pc = "awaitOrientationPermission"]
    /\ UNCHANGED <<gpsWatchId, lastPosition, watchIds, activeWatches, liveStopped,
                   platform, geolocation>>
    /\ UNCHANGED <<audioVars, now, appVars, uiVars, wireVars, simVars>>
    /\ ReportError("motionPermission", 0, NoBeep, "none", NoContext,
                   IF outcome = "error" THEN handleError("motion", "permission request failed")
                   ELSE None)

\* DeviceOrientationEvent.requestPermission() awaited by initialize()
\* settles; initialize() returns and start() requests the wake lock
OrientationPermissionSettled(i, outcome) ==
    /\ tasks[i].pc = "awaitOrientationPermission"
    /\ subs' = IF outcome = "granted" THEN startOrientation(subs, platform[1]) ELSE subs
    /\ tasks' = [tasks EXCEPT ![i].pc = "awaitWake"]
    /\ UNCHANGED <<gpsWatchId, lastPosition, watchIds, activeWatches, liveStopped,
                   platform, geolocation>>
    /\ UNCHANGED <<audioVars, now, appVars, uiVars, wireVars, simVars>>
    /\ ReportError("orientationPermission", 0, NoBeep, "none", NoContext,
                   IF outcome = "error"
                   THEN handleError("orientation", "permission request failed")
                   ELSE None)

\* the azimuth handleOrientation computes from an event = [heading, alpha,
\* absolute] (webkitCompassHeading and alpha optional), or None where it
\* returns for want of valid data
OrientationAzimuth(event, usingAbsolute) ==
    IF event.heading # None
    THEN Some(event.heading[1])
    ELSE IF event.alpha # None
    THEN IF event.absolute \/ usingAbsolute
         THEN Some(JsRem(360 - event.alpha[1], 360))
         ELSE Some(event.alpha[1])
    ELSE None

\* the listeners of the given channel have seen valid data
Received(channel) ==
    [k \in 1..Len(subs) |->
        IF subs[k].channel = channel
        THEN [subs[k] EXCEPT !.hasReceivedData = TRUE]
        ELSE subs[k]]

\* the platform dispatches an orientation event to the handleOrientation
\* listeners; they all compute the same azimuth and hand it to
\* handleOrientationUpdate, which stores the same values each time
LiveOrientationEvent(event) ==
    /\ \E k \in 1..Len(subs) : subs[k].channel = "orientation"
    /\ LET azimuth == OrientationAzimuth(event, platform[1].absolute)
       IN IF azimuth = None
          THEN /\ UNCHANGED <<appVars, uiVars, subs>>
               /\ Report("orientationNoData", 0, NoBeep, "none", NoContext)
          ELSE /\ subs' = Received("orientation")
               /\ IF liveWired
                  THEN handleOrientationUpdate(
                           [azimuth |-> [kind |-> "finite", value |-> azimuth[1]]])
                  ELSE UNCHANGED <<appVars, uiVars>>
               /\ Report("orientation", 0, NoBeep, "none", NoContext)
    /\ UNCHANGED <<gpsWatchId, lastPosition, watchIds, activeWatches, liveStopped,
                   platform, geolocation>>
    /\ UNCHANGED <<audioVars, now, wireVars, simVars, tasks>>

\* the sample handleMotion builds from an event = [accel], accel being
\* event.acceleration || event.accelerationIncludingGravity, absent or
\* [x, y, z] with optional numbers; None where it returns for want of data
MotionSample(event) ==
    IF event.accel = None
    THEN None
    ELSE LET accel == event.accel[1]
         IN IF accel.x = None /\ accel.y = None /\ accel.z = None
            THEN None
            ELSE Some([forward |-> OrZero(accel.y)])

\* the platform dispatches a motion event to the handleMotion listeners;
\* a second handleMotionUpdate with the same sample changes nothing more
LiveMotionEvent(event) ==
    /\ \E k \in 1..Len(subs) : subs[k].channel = "motion"
    /\ LET sample == MotionSample(event)
       IN IF sample = None
          THEN /\ UNCHANGED <<audioVars, appVars, uiVars, subs>>
               /\ Report("motionNoData", 0, NoBeep, "none", NoContext)
          ELSE /\ subs' = Received("motion")
               /\ IF liveWired
                  THEN handleMotionUpdate(sample[1])
                  ELSE /\ UNCHANGED <<audioVars, appVars, uiVars>>
                       /\ Report("motion", 0, NoBeep, "none", NoContext)
    /\ UNCHANGED <<gpsWatchId, lastPosition, watchIds, activeWatches, liveStopped,
                   platform, geolocation>>
    /\ UNCHANGED <<now, wireVars, simVars, tasks>>

\* the message of a liveness timer
NotAvailable(channel) ==
    IF channel = "orientation" THEN "Compass not available on this device"
    ELSE "Accelerometer not available on this device"

\* a liveness timer's callback without `if (!hasReceivedData)`
probeCheck_NoTest(sub) == handleError(sub.channel, NotAvailable(sub.channel))

\* a liveness timer's callback: the onError call it makes
probeCheck(sub) ==
    IF ~sub.hasReceivedData
    THEN handleError(sub.channel, NotAvailable(sub.channel))
    ELSE None

\* the 2 s timer of subscription k runs
ProbeTimeout(k) ==
    /\ k \in 1..Len(subs)
    /\ subs[k].probe = "armed"
    /\ now >= subs[k].deadline
    /\ subs' = [subs EXCEPT ![k].probe = "fired"]
    /\ UNCHANGED <<gpsWatchId, lastPosition, watchIds, activeWatches, liveStopped,
                   platform, geolocation>>
    /\ UNCHANGED <<audioVars, now, appVars, uiVars, wireVars, simVars, tasks>>
    /\ ReportError("probeTimeout", 0, NoBeep, "none", NoContext, probeCheck(subs[k]))

\* a call of SensorManager.stop()
CallSensorsStop ==
    /\ activeWatches' = IF gpsWatchId # NoWatch
                        THEN activeWatches \ {gpsWatchId}
                        ELSE activeWatches
    /\ gpsWatchId' = NoWatch
    /\ liveStopped' = TRUE
    /\ UNCHANGED <<lastPosition, watchIds, subs, platform, geolocation>>
    /\ UNCHANGED <<audioVars, now, appVars, uiVars, wireVars, simVars, tasks>>
    /\ Report("sensorsStop", 0, NoBeep, "none", NoContext)

----------------------------------------------------------------------------
(* Specifications *)

CtxStates == {"suspended", "running"}
MotionSamples == [forward : Forwards]
\* position samples in which only the speed varies
SpeedSamples == [latitude : {148986}, longitude : {7824},
                 speed : {None} \cup {Some(v) : v \in Speeds},
                 bearing : {Some(90)}]

\* The Braking Detector in the wired application: position samples, motion
\* samples and threshold changes in any order, with the audio engine
\* unlocked or not.
NextDetector ==
    \/ \E kind \in {"start", "simulate"}, ctorOk \in BOOLEAN :
          Click(kind, ctorOk, "running")
    \/ \E v \in SpeedThresholds : SpeedSlider(v)
    \/ \E v \in BrakeThresholds : BrakeSlider(v)
    \/ \E data \in SpeedSamples : SourceGps(data)
    \/ \E data \in MotionSamples : SourceMotion(data)

SpecDetector == Init /\ [][NextDetector]_vars

\* no settings were saved: the thresholds are the constructor's
InitDefaults ==
    /\ Init
    /\ SPEED_THRESHOLD = DefaultSpeedThreshold
    /\ BRAKE_THRESHOLD = DefaultBrakeThreshold

\* samples that take the detector into BRAKING and out of it
AlertGps == [latitude : {148986}, longitude : {7824},
             speed : {Some(50)}, bearing : {Some(90)}]
AlertMotion == [forward : {-30, 0}]

\* The alert path of the wired application: the three buttons (start-up
\* beep, test sound), the clock, and the samples that make the detector
\* flap.
NextAlerts ==
    \/ \E kind \in {"start", "simulate", "test"}, ctorOk \in BOOLEAN, st \in CtxStates :
          Click(kind, ctorOk, st)
    \/ \E i \in 1..MaxTasks, ok \in BOOLEAN : ResumeSettled(i, ok)
    \/ Tick
    \/ \E data \in AlertGps : SourceGps(data)
    \/ \E data \in AlertMotion : SourceMotion(data)

SpecAlerts == InitDefaults /\ [][NextAlerts]_vars

\* The AudioEngine driven through its public interface: unlock(),
\* playBeep with arbitrary arguments, playBrakeAlert(), setDebounce().
NextAudio ==
    \/ \E ctorOk \in BOOLEAN, st \in CtxStates : Click("unlock", ctorOk, st)
    \/ \E i \in 1..MaxTasks, ok \in BOOLEAN : ResumeSettled(i, ok)
    \/ \E valid \in BOOLEAN : CallPlayBeep(valid)
    \/ CallPlayBrakeAlert
    \/ \E ms \in DebounceChoices : SetDebounce(ms)
    \/ Tick

SpecAudio == Init /\ [][NextAudio]_vars

\* position samples of the aggregator: every field varies, speed and
\* bearing may be absent
AggSamples == [latitude : Latitudes, longitude : Longitudes,
               speed : {None, Some(50)},
               bearing : {None} \cup {Some(b) : b \in Bearings}]

\* The Kinematic State Aggregator fed by a wired source.
NextAgg ==
    \/ \E kind \in {"start", "simulate"} : Click(kind, TRUE, "running")
    \/ \E i \in 1..MaxTasks : WakeSettled(i)
    \/ \E data \in AggSamples : SourceGps(data)

SpecAgg == Init /\ [][NextAgg]_vars

\* platform position events: coords.speed and coords.heading may be null
Positions == [latitude : {148986}, longitude : {7824},
              speed : {None, Some(0), Some(50)},
              heading : {None} \cup {Some(b) : b \in Bearings}]

\* The Live Sensor Source: start(false) and the position watch.
NextLive ==
    \/ \E ctorOk \in BOOLEAN : Click("start", ctorOk, "running")
    \/ \E w \in 1..MaxTasks, position \in Positions : PositionEvent(w, position)
    \/ \E i \in 1..MaxTasks : WakeSettled(i)

SpecLive == Init /\ [][NextLive]_vars

\* azimuths of orientation samples: unusable values, and numbers below 0,
\* inside [0,360) and above 360
Azimuths == [kind : {"NaN", "Infinity", "-Infinity", "undefined"}, value : {0}]
            \cup [kind : {"finite"}, value : {-90, 0, 90, 450}]
OrientationSamples == [azimuth : Azimuths]
\* position samples for the two pointers: speeds 0, 10, 15, 30 and 60 m/s
CompassSamples == [latitude : {148986}, longitude : {7824},
                   speed : {None} \cup {Some(v) : v \in {0, 100, 150, 300, 600}},
                   bearing : {None, Some(90), Some(270)}]

\* The aggregator's two pointers: position and orientation samples in any
\* order from a wired source.
NextCompass ==
    \/ \E kind \in {"start", "simulate"} : Click(kind, TRUE, "running")
    \/ \E data \in CompassSamples : SourceGps(data)
    \/ \E data \in OrientationSamples : SourceOrientation(data)

SpecCompass == Init /\ [][NextCompass]_vars

\* The Synthetic Sensor Source behind the Simulate button, pressed once:
\* its scenario machine under every random outcome, and triggerBrake().
NextSim ==
    \/ /\ \A i \in 1..MaxTasks : tasks[i].pc = "free"
       /\ Click("simulate", TRUE, "running")
    \/ TriggerBrake
    \/ \E rnd \in Randoms : SimTick(rnd)

SpecSim == InitDefaults /\ [][NextSim]_vars

\* The simulator's timer: the Simulate button and direct calls of start(),
\* initialize() and stop() in any order, with the ticks of one run of the
\* scenario machine.
NextSimTimer ==
    \/ Click("simulate", TRUE, "running")
    \/ \E op \in {"simStart", "simInitialize"} : CallSimStart(op)
    \/ CallSimStop
    \/ SimTick(QuietRandom)

SpecSimTimer == InitDefaults /\ [][NextSimTimer]_vars

\* the random outcomes that decide where the scenario machine goes: when
\* a cruise ends and what follows it
RunRandoms == {rnd \in Randoms : /\ rnd.acceleration = QuietRandom.acceleration
                                 /\ rnd.bearingDrift = QuietRandom.bearingDrift
                                 /\ rnd.azimuthDrift = QuietRandom.azimuthDrift
                                 /\ rnd.position = QuietRandom.position}

\* a tick with any of them
RunTick == \E rnd \in RunRandoms : SimTick(rnd)

\* The simulator left to itself behind the Simulate button: nothing but its
\* ticks.  setInterval keeps calling tick() while the timer is active,
\* which is the fairness assumed.
NextSimRun ==
    \/ /\ \A i \in 1..MaxTasks : tasks[i].pc = "free"
       /\ Click("simulate", TRUE, "running")
    \/ RunTick

SpecSimRun == InitDefaults /\ [][NextSimRun]_vars /\ WF_vars(RunTick)

\* platform events of the orientation and motion channels, with and
\* without valid data
OrientationEvents == [heading : {None, Some(90)}, alpha : {None, Some(90)},
                      absolute : BOOLEAN]
MotionEvents == {[accel |-> None],
                 [accel |-> Some([x |-> None, y |-> None, z |-> None])],
                 [accel |-> Some([x |-> Some(0), y |-> Some(-10), z |-> Some(0)])],
                 [accel |-> Some([x |-> Some(1), y |-> None, z |-> None])]}
ProbePosition == [latitude |-> 148986, longitude |-> 7824,
                  speed |-> Some(50), heading |-> Some(90)]

\* The Live Sensor Source behind the Start button, pressed once: its
\* position watch, its orientation and motion listeners with their
\* liveness timers, the clock, and stop().
NextProbe ==
    \/ /\ \A i \in 1..MaxTasks : tasks[i].pc = "free"
       /\ Click("start", TRUE, "running")
    \/ \E w \in 1..MaxTasks, p \in Platforms : PositionEventOn(w, ProbePosition, p)
    \/ \E i \in 1..MaxTasks, outcome \in {"granted", "denied", "error"} :
          MotionPermissionSettled(i, outcome)
    \/ \E i \in 1..MaxTasks, outcome \in {"granted", "denied", "error"} :
          OrientationPermissionSettled(i, outcome)
    \/ \E event \in OrientationEvents : LiveOrientationEvent(event)
    \/ \E event \in MotionEvents : LiveMotionEvent(event)
    \/ \E k \in 1..(2 * MaxTasks) : ProbeTimeout(k)
    \/ Tick
    \/ CallSensorsStop

SpecProbe == InitDefaults /\ [][NextProbe]_vars

\* The position channel of the Live Sensor Source: the Start button on
\* platforms with and without navigator.geolocation (the audio context
\* running from the start), fixes and errors of the position watches in any
\* order, and the rest of initialize() and start() after them.
NextGps ==
    \/ \E geo \in BOOLEAN, p \in Platforms : ClickOn("start", TRUE, "running", geo, p)
    \/ \E w \in 1..MaxTasks, p \in Platforms : PositionEventOn(w, ProbePosition, p)
    \/ \E w \in 1..MaxTasks, code \in GpsErrorCodes, p \in Platforms :
          GpsErrorOn(w, code, p)
    \/ \E i \in 1..MaxTasks, outcome \in {"granted", "denied", "error"} :
          MotionPermissionSettled(i, outcome)
    \/ \E i \in 1..MaxTasks, outcome \in {"granted", "denied", "error"} :
          OrientationPermissionSettled(i, outcome)
    \/ \E i \in 1..MaxTasks : WakeSettled(i)

SpecGps == InitDefaults /\ [][NextGps]_vars

\* position samples with every whole bearing of [0, 360]
CardinalSamples == [latitude : {148986}, longitude : {7824}, speed : {Some(50)},
                    bearing : {Some(b) : b \in 0..360}]

\* The bearing display: position samples of any bearing from a wired
\* source, handleGpsUpdate writing the bearing and its cardinal direction.
NextCardinal ==
    \/ \E kind \in {"start", "simulate"} : Click(kind, TRUE, "running")
    \/ \E data \in CardinalSamples : SourceGps(data)

SpecCardinal == InitDefaults /\ [][NextCardinal]_vars

\* azimuths around the multiples of 360, below 0 and from 360 up
WideAzimuths == [kind : {"finite"},
                 value : {-721, -720, -361, -360, -359, -1, 0, 1, 358, 360, 361,
                          720, 721}]
WideOrientationSamples == [azimuth : WideAzimuths]
\* position samples whose bearing minus the stored azimuth runs from -359
\* to 360
WideGpsSamples == [latitude : {148986}, longitude : {7824}, speed : {Some(50)},
                   bearing : {Some(0), Some(90), Some(359), Some(360)}]

\* the random outcomes that move the simulator's bearing and azimuth
DriftRandoms == {rnd \in Randoms : /\ rnd.acceleration = QuietRandom.acceleration
                                   /\ rnd.leave = QuietRandom.leave
                                   /\ rnd.brake = QuietRandom.brake
                                   /\ rnd.position = QuietRandom.position}

\* The three places that normalize an angle: one press of Start followed by
\* live position and orientation samples, or one press of Simulate followed
\* by the simulator's ticks.
NextNormalize ==
    \/ /\ \A i \in 1..MaxTasks : tasks[i].pc = "free"
       /\ \E kind \in {"start", "simulate"} : Click(kind, TRUE, "running")
    \/ \E data \in WideGpsSamples : liveWired /\ SourceGps(data)
    \/ \E data \in WideOrientationSamples : liveWired /\ SourceOrientation(data)
    \/ \E rnd \in DriftRandoms : SimTick(rnd)

SpecNormalize == InitDefaults /\ [][NextNormalize]_vars

\* The two data sources side by side: Start and Simulate clicks in any
\* order with every await of start() as a point where the other click can
\* arrive, the position watch of the live source and the first ticks of
\* the simulator's timer.
NextSources ==
    \/ \E kind \in {"start", "simulate"}, st \in CtxStates : Click(kind, TRUE, st)
    \/ \E i \in 1..MaxTasks : ResumeSettled(i, TRUE)
    \/ \E w \in 1..MaxTasks : PositionEvent(w, ProbePosition)
    \/ \E i \in 1..MaxTasks : WakeSettled(i)
    \/ scenarioTime < MaxTicks /\ SimTick(QuietRandom)

SpecSources == InitDefaults /\ [][NextSources]_vars

----------------------------------------------------------------------------
(* Properties *)

\* currentSpeed > speedThreshold AND the latest forward acceleration <
\* brakeThreshold
BrakeCondition ==
    currentSpeed > SPEED_THRESHOLD /\ currentAcceleration < BRAKE_THRESHOLD

\* C1: right after a motion sample has been processed, isBraking holds iff
\* currentSpeed > SPEED_THRESHOLD and the sample's forward acceleration <
\* BRAKE_THRESHOLD, both strict.
C1_BrakingIffCondition ==
    lastOp = "motion" => (isBraking <=> BrakeCondition)

\* thresholds 0.5 and -2.0, speed 5 m/s, forward -3.0: BRAKING
C1_Witness ==
    /\ lastOp = "motion"
    /\ SPEED_THRESHOLD = 5 /\ BRAKE_THRESHOLD = -20
    /\ currentSpeed = 50 /\ currentAcceleration = -30
    /\ isBraking

\* C2: a motion sample calls playBrakeAlert once if it moves the detector
\* from NORMAL to BRAKING and not at all otherwise (staying in BRAKING,
\* leaving BRAKING, staying in NORMAL); after it the indicator is visible
\* iff isBraking.
C2_AlertOncePerEntry ==
    [][lastOp' = "motion" =>
          /\ alertCalls' = (IF ~isBraking /\ isBraking' THEN 1 ELSE 0)
          /\ brakeIndicatorHidden' = ~isBraking']_vars

\* a motion sample has entered BRAKING: one alert, indicator visible
C2_Witness ==
    lastOp = "motion" /\ alertCalls = 1 /\ isBraking /\ ~brakeIndicatorHidden

\* C3, as claimed: in every reachable state isBraking and the visibility
\* of the indicator equal the braking condition on the current speed,
\* thresholds and latest forward acceleration.
C3_Original ==
    /\ isBraking <=> BrakeCondition
    /\ ~brakeIndicatorHidden <=> BrakeCondition

\* C3, amended: isBraking and the indicator equal the braking condition
\* right after each motion sample; every other step (a position sample, a
\* threshold change, ...) leaves both as they were, whatever it does to
\* the condition.
C3_Amended ==
    [][IF lastOp' = "motion"
       THEN /\ isBraking' <=> BrakeCondition'
            /\ brakeIndicatorHidden' = ~isBraking'
       ELSE /\ isBraking' = isBraking
            /\ brakeIndicatorHidden' = brakeIndicatorHidden]_vars

\* a position sample has brought the speed to 0 and the detector is still
\* in BRAKING
C3_Witness ==
    lastOp = "gps" /\ currentSpeed = 0 /\ isBraking /\ ~brakeIndicatorHidden

\* C4: of the application's playBeep calls (start-up beep, test sound,
\* brake alerts), one made fewer than debounceMs after the last call that
\* returned true returns false, starts no tone and leaves lastBeepTime
\* alone; one made debounceMs or more after it returns true; so two calls
\* that return true are at least debounceMs apart.  A tone starts iff the
\* call returns true.
C4_Debounce ==
    [][beepRet' # "none" =>
          /\ toneStarted' = (beepRet' = "true")
          /\ (beepRet' = "true" /\ lastSuccessTime # None) =>
                now - lastSuccessTime[1] >= debounceMs
          /\ lastSuccessTime # None =>
                IF now - lastSuccessTime[1] < debounceMs
                THEN beepRet' = "false" /\ lastBeepTime' = lastBeepTime
                ELSE beepRet' = "true" /\ lastBeepTime' = now]_vars

\* a brake alert requested inside the window of an earlier beep was
\* refused
C4_Witness ==
    /\ lastOp = "motion" /\ alertCalls = 1 /\ beepRet = "false"
    /\ lastSuccessTime # None /\ now - lastSuccessTime[1] < debounceMs

\* C5: playBeep or playBrakeAlert called while isUnlocked is false returns
\* false, starts no tone and changes no field of the engine.
C5_LockedNoEffect ==
    [][(lastOp' \in {"playBeep", "playBrakeAlert"} /\ ~isUnlocked) =>
          /\ beepRet' = "false"
          /\ ~toneStarted'
          /\ audioVars' = audioVars
          /\ lastSuccessTime' = lastSuccessTime]_vars

\* a beep was refused while an unlock() was still awaiting resume()
C5_Witness ==
    /\ lastOp \in {"playBeep", "playBrakeAlert"}
    /\ ~isUnlocked /\ audioContext # NoContext
    /\ beepRet = "false" /\ ~toneStarted

\* C6, as claimed: every playBeep call that returns false leaves
\* lastBeepTime unchanged.
C6_Original ==
    [][beepRet' = "false" => lastBeepTime' = lastBeepTime]_vars

\* C7: unlock() called when isUnlocked is already true returns true,
\* creates no context, plays no silent buffer and changes no field.
C7_UnlockIdempotent ==
    [][(lastOp' = "click" /\ isUnlocked) =>
          /\ unlockRet' = "true"
          /\ audioVars' = audioVars
          /\ silentOn' = NoContext]_vars

\* an unlock() call has returned true without playing a silent buffer
C7_Witness ==
    lastOp = "click" /\ isUnlocked /\ unlockRet = "true" /\ silentOn = NoContext

\* C8: a motion sample that enters BRAKING does so whether or not its
\* alert is played; a refused alert changes no field of the engine; and an
\* entry made while the engine is unlocked and no beep returned true in
\* the last debounceMs starts a tone.
C8_SuppressedAlertRetryable ==
    [][alertCalls' = 1 =>
          /\ ~isBraking /\ isBraking' /\ ~brakeIndicatorHidden'
          /\ beepRet' = "false" => audioVars' = audioVars
          /\ (isUnlocked /\ (lastSuccessTime = None
                             \/ now - lastSuccessTime[1] >= debounceMs)) =>
                (beepRet' = "true" /\ toneStarted')]_vars

\* after an entry into BRAKING whose alert was refused, a later entry has
\* started a tone
C8_Witness ==
    /\ alertRefused
    /\ lastOp = "motion" /\ alertCalls = 1 /\ beepRet = "true" /\ toneStarted
    /\ isBraking /\ ~brakeIndicatorHidden

\* C9, as claimed: a position sample without bearing leaves currentBearing
\* unchanged; the speed becomes the sample's speed (0 when absent) and
\* latitude and longitude are always rewritten.
C9_Original ==
    [][\A data \in AggSamples :
          SourceGps(data) =>
             /\ data.bearing = None => currentBearing' = currentBearing
             /\ currentSpeed' = OrZero(data.speed)
             /\ latitudeText' = Some(toDMS(data.latitude, TRUE))
             /\ longitudeText' = Some(toDMS(data.longitude, FALSE))]_vars

\* C10, as claimed: the sample the position watch hands to onGpsUpdate has
\* a speed and a bearing; the speed is 0 when coords.speed is null and the
\* bearing is the one of the previous sample when coords.heading is null.
C10_Original ==
    [][\A w \in 1..MaxTasks, position \in Positions :
          PositionEvent(w, position) =>
             /\ lastPosition'[1].speed # None
             /\ lastPosition'[1].bearing # None
             /\ position.speed = None => lastPosition'[1].speed = Some(0)
             /\ (position.heading = None /\ lastPosition # None) =>
                   lastPosition'[1].bearing = lastPosition[1].bearing]_vars

\* C11: an orientation sample whose azimuth is not a finite number (NaN,
\* +/-Infinity, undefined) is handled without changing any state of the
\* application or the page; any other sample stores its azimuth normalized
\* into [0,360); so currentAzimuth is always a number in [0,360).
C11_InvalidAzimuthDropped ==
    [][/\ \A data \in OrientationSamples :
             SourceOrientation(data) =>
                IF IsFinite(data.azimuth)
                THEN /\ currentAzimuth' \in 0..359
                     /\ (currentAzimuth' - data.azimuth.value) % 360 = 0
                ELSE /\ appVars' = appVars
                     /\ uiVars' = uiVars
       /\ currentAzimuth' \in 0..359]_vars

\* with azimuth 90 stored and both pointers drawn, an unusable sample has
\* been handled
C11_Witness ==
    /\ lastOp = "orientationInvalid"
    /\ currentAzimuth = 90 /\ northRotation = Some(-90) /\ velocityRotation # None

C13_ArrowLength ==
    [][\A data \in CompassSamples :
          SourceGps(data) =>
             LET speed == OrZero(data.speed)
             IN /\ arrowLength' # None
                /\ IF speed < 300
                   THEN 300 * (arrowLength'[1] - 2100) = 2100 * speed
                   ELSE arrowLength'[1] = 4200
                /\ arrowLength'[1] >= 2100 /\ arrowLength'[1] <= 4200
                /\ speed = 0 => arrowLength'[1] = 35 * 60
                /\ speed \in {300, 600} => arrowLength'[1] = 70 * 60
                /\ (arrowLength # None /\ currentSpeed <= speed) =>
                      arrowLength[1] <= arrowLength'[1]]_vars

\* a position sample of 60 m/s has been handled: the length is 70
C13_Witness ==
    /\ lastOp = "gps" /\ currentSpeed = 600 /\ arrowLength = Some(4200)

\* C14, as claimed: a tick in 'accelerate' adds 0.5 m/s capped at 15 and
\* sets the forward acceleration to +2.5, and the 150th tick after the
\* scenario was entered (5 simulated seconds) leaves it for 'cruise' with
\* speed 15.
C14_Original ==
    [][(lastOp' = "simTick" /\ scenario = "accelerate") =>
          /\ simSpeed' = (IF simSpeed + 5 < 150 THEN simSpeed + 5 ELSE 150)
          /\ simAcceleration' = 25
          /\ scenarioTime + 1 = 150 => (scenario' = "cruise" /\ simSpeed' = 150)]_vars

\* C14, amended: a tick in 'accelerate' adds 0.5 m/s capped at 15 and sets
\* the forward acceleration to +2.5; the scenario is still 'accelerate'
\* after each of the first 150 ticks, and the 151st tick, the first on
\* which scenarioTime > 5, leaves it for 'cruise' with the scenario timer
\* at 0 and speed 15.
C14_Amended ==
    [][(lastOp' = "simTick" /\ scenario = "accelerate") =>
          /\ simSpeed' = (IF simSpeed + 5 < 150 THEN simSpeed + 5 ELSE 150)
          /\ simAcceleration' = 25
          /\ IF scenarioTime + 1 <= 150
             THEN scenario' = "accelerate" /\ scenarioTime' = scenarioTime + 1
             ELSE /\ scenarioTime + 1 = 151
                  /\ scenario' = "cruise" /\ scenarioTime' = 0 /\ simSpeed' = 150]_vars

\* the tick that left 'accelerate' for 'cruise': speed 15, acceleration
\* still +2.5, delivered to the application
C14_Witness ==
    /\ lastOp = "simTick" /\ scenario = "cruise" /\ scenarioTime = 0
    /\ simSpeed = 150 /\ simAcceleration = 25
    /\ currentSpeed = 150 /\ currentAcceleration = 25

\* C15: a tick in 'brake' subtracts 2.5 m/s from the speed, floored at 0,
\* and sets the forward acceleration to -7.0; it moves to 'stop' if the
\* speed is then 0, else to 'cruise' if 2 s (60 ticks) have elapsed in
\* brake, else stays in 'brake'; a tick that leaves 'brake' sets the
\* scenario timer to 0.
C15_Brake ==
    [][(lastOp' = "simTick" /\ scenario = "brake") =>
          /\ simSpeed' = (IF simSpeed - 25 > 0 THEN simSpeed - 25 ELSE 0)
          /\ simAcceleration' = -70
          /\ scenario' = (IF simSpeed' = 0 THEN "stop"
                          ELSE IF scenarioTime + 1 >= 2 * 30 THEN "cruise"
                          ELSE "brake")
          /\ scenarioTime' = (IF scenario' = "brake" THEN scenarioTime + 1 ELSE 0)]_vars

\* the tick on which a brake brought the speed to 0 has moved to 'stop' and
\* delivered speed 0 and acceleration -7.0
C15_Witness ==
    /\ lastOp = "simTick" /\ scenario = "stop" /\ scenarioTime = 0
    /\ simSpeed = 0 /\ simAcceleration = -70
    /\ currentSpeed = 0 /\ currentAcceleration = -70

\* C16: a tick in 'cruise' does not change the speed; it stays in 'cruise'
\* on each of the first 240 ticks (8 s), leaves at the latest on the 361st
\* (the first tick after 12 s), and leaves only for 'brake' or
\* 'accelerate', with the scenario timer at 0.
C16_Cruise ==
    [][(lastOp' = "simTick" /\ scenario = "cruise") =>
          /\ simSpeed' = simSpeed
          /\ scenario' \in {"cruise", "brake", "accelerate"}
          /\ scenarioTime + 1 <= 8 * 30 => scenario' = "cruise"
          /\ scenarioTime + 1 > 12 * 30 => scenario' # "cruise"
          /\ scenarioTime' = (IF scenario' = "cruise" THEN scenarioTime + 1 ELSE 0)]_vars

\* a cruise at 15 m/s has been left for 'brake'
C16_Witness ==
    /\ lastOp = "simTick" /\ scenario = "brake" /\ scenarioTime = 0
    /\ simSpeed = 150 /\ simAcceleration \in CruiseAccelerations

\* C17: a tick in 'stop' leaves speed and forward acceleration at 0 and
\* the position where it was, delivers them to the application, and stays
\* in 'stop' until the first tick after 3 s (the 91st), which moves to
\* 'accelerate'; the speed is 0 in every state whose scenario is 'stop'
\* after a tick.
C17_Stop ==
    [][/\ (lastOp' = "simTick" /\ scenario = "stop") =>
             /\ simSpeed' = 0 /\ simAcceleration' = 0
             /\ simLatitude' = simLatitude /\ simLongitude' = simLongitude
             /\ simWired => (currentSpeed' = 0 /\ currentAcceleration' = 0)
             /\ scenario' = (IF scenarioTime + 1 <= 3 * 30 THEN "stop" ELSE "accelerate")
             /\ scenarioTime' = (IF scenario' = "stop" THEN scenarioTime + 1 ELSE 0)
       /\ (lastOp' = "simTick" /\ scenario' = "stop") => simSpeed' = 0]_vars

\* the tick that left 'stop' for 'accelerate', after the simulator had
\* moved
C17_Witness ==
    /\ lastOp = "simTick" /\ scenario = "accelerate" /\ scenarioTime = 0
    /\ simSpeed = 0 /\ simAcceleration = 0
    /\ <<simLatitude, simLongitude>> = <<148987, 7825>>

\* C19: a tick runs only while the simulator is running on its own active
\* timer, so none runs (and no sample is delivered) between a stop() and
\* the next start(); after any sequence of start(), initialize(), stop()
\* and Simulate clicks at most one interval timer is active, it is the one
\* intervalId names, and isRunning holds iff intervalId is set; stop()
\* leaves no timer active.
C19_TimerCancelled ==
    [][/\ lastOp' = "simTick" =>
             (isRunning /\ intervalId # NoInterval /\ activeIntervals = {intervalId})
       /\ Cardinality(activeIntervals') <= 1
       /\ isRunning' <=> intervalId' # NoInterval
       /\ activeIntervals' = (IF intervalId' = NoInterval THEN {} ELSE {intervalId'})
       /\ lastOp' = "simStop" => (activeIntervals' = {} /\ ~isRunning')]_vars

\* stop() has returned on a simulator that was wired to the application
\* and had ticked: no timer is left
C19_Witness ==
    /\ lastOp = "simStop" /\ simWired /\ scenarioTime > 0
    /\ timerIds >= 1 /\ ~isRunning /\ intervalId = NoInterval /\ activeIntervals = {}

\* C18, as claimed: from the return of stop() on the Live Sensor Source
\* until start(false) runs again, no position, orientation or motion
\* sample is delivered and no liveness timer signals an error.
C18_Original ==
    [][(liveStopped /\ liveStopped') =>
          /\ lastOp' \notin {"position", "orientation", "motion"}
          /\ lastOp' = "probeTimeout" => lastError' = None]_vars

\* an orientation event carries valid data: a compass heading or an alpha
ValidOrientationEvent(event) == event.heading # None \/ event.alpha # None

\* a motion event carries valid data: an acceleration with some axis set
ValidMotionEvent(event) ==
    /\ event.accel # None
    /\ \/ event.accel[1].x # None
       \/ event.accel[1].y # None
       \/ event.accel[1].z # None

\* C20: a subscription starts with no data seen and a timer due 2 s later;
\* its listener records data exactly on the valid events of its channel;
\* its timer runs once, at its due time, and signals onError for its
\* channel with the 'not available' message iff no valid event had reached
\* the listener by then; no other step signals that message.
C20_LivenessProbe ==
    [][/\ \A k \in 1..Len(subs') :
             IF k > Len(subs)
             THEN /\ ~subs'[k].hasReceivedData /\ subs'[k].probe = "armed"
                  /\ subs'[k].deadline = now + 2000
             ELSE /\ subs'[k].deadline = subs[k].deadline
                  /\ subs[k].probe = "fired" => subs'[k].probe = "fired"
                  /\ subs[k].hasReceivedData => subs'[k].hasReceivedData
       /\ \A event \in OrientationEvents :
             LiveOrientationEvent(event) =>
                \A k \in 1..Len(subs) :
                   subs'[k].hasReceivedData =
                      (subs[k].hasReceivedData
                          \/ (subs[k].channel = "orientation" /\ ValidOrientationEvent(event)))
       /\ \A event \in MotionEvents :
             LiveMotionEvent(event) =>
                \A k \in 1..Len(subs) :
                   subs'[k].hasReceivedData =
                      (subs[k].hasReceivedData
                          \/ (subs[k].channel = "motion" /\ ValidMotionEvent(event)))
       /\ lastOp' = "probeTimeout" =>
             \E k \in 1..Len(subs) :
                /\ subs[k].probe = "armed" /\ subs'[k].probe = "fired"
                /\ now = subs[k].deadline
                /\ \A j \in 1..Len(subs) : j # k => subs'[j] = subs[j]
                /\ lastError' = (IF subs[k].hasReceivedData THEN None
                                 ELSE Some([sensor |-> subs[k].channel,
                                            message |-> NotAvailable(subs[k].channel)]))
       /\ lastOp' # "probeTimeout" =>
             /\ \A k \in 1..Len(subs) : subs'[k].probe = subs[k].probe
             /\ lastError' # None =>
                   lastError'[1].message \notin {NotAvailable("orientation"),
                                                 NotAvailable("motion")}]_vars

\* the orientation timer has run with no valid orientation event seen and
\* signalled the error; the motion listener had seen data and its timer
\* ran without one
C20_Witness ==
    /\ lastOp = "probeTimeout"
    /\ lastError = Some([sensor |-> "orientation",
                         message |-> "Compass not available on this device"])
    /\ \E k \in 1..Len(subs) :
          subs[k].channel = "motion" /\ subs[k].hasReceivedData /\ subs[k].probe = "fired"

\* the initialize() call of task i learns in this step that startGps() has
\* rejected: its watch reported an error while it was awaited, or start()
\* got to startGps() on a platform without navigator.geolocation
GpsRejectedFor(i) ==
    \/ /\ tasks[i].pc = "awaitGps"
       /\ lastOp' = "positionError"
       /\ tasks'[i].pc # "awaitGps"
    \/ /\ tasks[i].pc \in {"free", "awaitResume"}
       /\ tasks'[i].kind = "start"
       /\ tasks'[i].pc \notin {"awaitResume", "awaitGps"}

\* C21: when startGps() rejects inside initialize() (no geolocation, or the
\* watch reports permission denied, position unavailable, timeout or another
\* error before any fix), the same step makes exactly one onError call, for
\* 'gps' with the rejection's message, leaves results.gps false, and goes on
\* with the motion and orientation part of initialize(): where no
\* permission is to be asked both listeners are added and start() has got
\* to its wake lock request, elsewhere initialize() is at its motion
\* permission request; no start() is ever abandoned.
C21_GpsFailureContinues ==
    [][\A i \in 1..MaxTasks :
          /\ tasks'[i].pc # "aborted"
          /\ GpsRejectedFor(i) =>
                /\ ~tasks'[i].gps
                /\ lastError' # None
                /\ lastError'[1].sensor = "gps"
                /\ lastError'[1].message \in
                      {"Geolocation not supported", "Location permission denied",
                       "Location unavailable", "Location request timed out",
                       "Unknown GPS error"}
                /\ platform' # None
                /\ IF platform'[1].ios
                   THEN /\ tasks'[i].pc = "awaitMotionPermission"
                        /\ subs' = subs
                   ELSE /\ tasks'[i].pc = "awaitWake"
                        /\ Len(subs') = Len(subs) + 2
                        /\ SubSeq(subs', 1, Len(subs)) = subs
                        /\ subs'[Len(subs) + 1].channel = "motion"
                        /\ subs'[Len(subs) + 2].channel = "orientation"]_vars

\* the position watch has timed out before any fix: the gps error was
\* signalled, both listeners were added and start() awaits its wake lock
\* with results.gps false
C21_Witness ==
    /\ lastOp = "positionError"
    /\ lastError = Some([sensor |-> "gps", message |-> "Location request timed out"])
    /\ Len(subs) = 2
    /\ \E i \in 1..MaxTasks : tasks[i].pc = "awaitWake" /\ ~tasks[i].gps

\* C22 as stated: every run of a position watch's error callback makes an
\* onError('gps', ...) call.
C22_Original ==
    [][lastOp' = "positionError" =>
          lastError' # None /\ lastError'[1].sensor = "gps"]_vars

\* the eight directions, clockwise from north
Cardinals == <<"N", "NE", "E", "SE", "S", "SW", "W", "NW">>

\* C23 as stated: a label for every bearing of [0, 360], and N at 0, N at
\* 44, NE at 46, N at 360.
C23_Original ==
    bearingText # None =>
        LET bearing == bearingText[1][1]
            label == bearingText[1][2]
        IN /\ label \in {Cardinals[k] : k \in 1..8}
           /\ bearing = 0 => label = "N"
           /\ bearing = 44 => label = "N"
           /\ bearing = 46 => label = "NE"
           /\ bearing = 360 => label = "N"

\* C23 amended: the label shown for a whole bearing of [0, 360] is the
\* direction nearest to it, the eight 45-degree sectors being centred on the
\* directions (N is [0, 22] and [338, 360], NE is [23, 67], ...); so N at
\* 0, 22 and 360, NE at 23, 44 and 46.
C23_Amended ==
    bearingText # None =>
        LET bearing == bearingText[1][1]
            label == bearingText[1][2]
        IN /\ label \in {Cardinals[k] : k \in 1..8}
           /\ \A k \in 1..8 :
                 label = Cardinals[k] <=>
                    \/ (2 * bearing > 90 * (k - 1) - 45 /\ 2 * bearing < 90 * (k - 1) + 45)
                    \/ (k = 1 /\ 2 * bearing > 720 - 45)
           /\ bearing \in {0, 22, 360} => label = "N"
           /\ bearing \in {23, 44, 46} => label = "NE"

\* a position sample of bearing 44 is shown as NE
C23_Witness ==
    /\ lastOp = "gps"
    /\ bearingText = Some(<<44, "NE">>)

\* y lies in [0, 360) and differs from x by a multiple of 360
NormalOf(y, x) == y \in 0..359 /\ (y - x) % 360 = 0

\* C24: the azimuth stored for an orientation sample of finite azimuth x is
\* in [0, 360) and congruent to x; the velocity pointer's rotation, whenever
\* a handler sets it, is in [0, 360) and congruent to the stored bearing
\* minus the stored azimuth; after a simulator tick the simulator's bearing
\* and azimuth are in [0, 360) and congruent to the values before the tick
\* plus the tick's drift.
C24_NormalizedAngles ==
    [][/\ \A data \in WideOrientationSamples :
             liveWired /\ SourceOrientation(data) =>
                NormalOf(currentAzimuth', data.azimuth.value)
       /\ lastOp' \in {"gps", "orientation", "simTick"} /\ velocityRotation' # None =>
             NormalOf(velocityRotation'[1], currentBearing' - currentAzimuth')
       /\ \A rnd \in DriftRandoms :
             SimTick(rnd) =>
                LET drifting == scenario = "cruise"
                IN /\ NormalOf(simBearing',
                               simBearing + (IF drifting THEN rnd.bearingDrift ELSE 0))
                   /\ NormalOf(simAzimuth',
                               simAzimuth + (IF drifting THEN rnd.azimuthDrift ELSE 0))]_vars

\* an orientation sample of negative azimuth (-1, -361 or -721) was stored
\* as 359, and the rotation 0 - 359 of the velocity pointer as 1
C24_Witness ==
    /\ lastOp = "orientation"
    /\ currentAzimuth = 359
    /\ currentBearing = 0
    /\ velocityRotation = Some(1)

\* C25 as stated: at most one audio context is ever constructed, and while
\* isUnlocked is true the engine holds a context that was resumed (armed).
C25_Original ==
    /\ Len(ctxState) <= 1
    /\ isUnlocked => (audioContext # NoContext /\ ctxState[audioContext] = "running")

\* the live source can hand a position sample to handleGpsUpdate
LiveDelivering == liveWired /\ activeWatches # {}

\* the simulator hands its samples to the three handlers on every tick
SimDelivering == simWired /\ activeIntervals # {}

\* C26 as stated: no handler is run by one source while the other source is
\* delivering too.
C26_Original ==
    [][/\ (lastOp' = "position" /\ liveWired) => ~SimDelivering
       /\ (lastOp' = "simTick" /\ simWired) => ~LiveDelivering]_vars

\* C27: a tick of the wired simulator leaves in the application what one
\* position sample, then one orientation sample, then one motion sample
\* built from the simulator's new state leave there: speed, bearing and
\* coordinates of the simulator, its azimuth, the pointer between them, and
\* its noise-free acceleration as the forward acceleration; with the
\* default thresholds isBraking is then true iff the tick ran the 'brake'
\* case and left a speed above 0.5 m/s, so it is false after every
\* accelerate, cruise and stop tick; the tick asks for one alert when it
\* enters BRAKING and for none otherwise.
C27_TickDelivery ==
    [][(lastOp' = "simTick" /\ simWired) =>
          /\ currentSpeed' = simSpeed'
          /\ currentBearing' = simBearing'
          /\ latitudeText' = Some(toDMS(simLatitude', TRUE))
          /\ longitudeText' = Some(toDMS(simLongitude', FALSE))
          /\ currentAzimuth' = simAzimuth'
          /\ northRotation' = Some(-simAzimuth')
          /\ velocityRotation' = Some(Normalize(simBearing' - simAzimuth'))
          /\ currentAcceleration' = simAcceleration'
          /\ isBraking' <=> (scenario = "brake" /\ simSpeed' > 5)
          /\ scenario \in {"accelerate", "cruise", "stop"} => ~isBraking'
          /\ alertCalls' = (IF isBraking' /\ ~isBraking THEN 1 ELSE 0)]_vars

\* a brake tick from 15 m/s has left 12.5 m/s and the detector in BRAKING
C27_Witness ==
    /\ lastOp = "simTick"
    /\ scenario = "brake"
    /\ simSpeed = 125 /\ currentSpeed = 125
    /\ currentAcceleration = -70
    /\ isBraking

\* C28: the speed never exceeds 15 m/s, and a tick in 'brake' either stays
\* in 'brake', with a positive speed of at most 15 - 2.5 per tick spent in
\* the episode and no more than 5 ticks spent, or moves to 'stop' with
\* speed 0; it never moves to 'cruise'.
C28_BrakeEndsInStop ==
    [][/\ simSpeed' <= 150
       /\ (lastOp' = "simTick" /\ scenario = "brake") =>
             /\ scenario' \in {"brake", "stop"}
             /\ scenario' = "stop" => simSpeed' = 0
             /\ scenario' = "brake" =>
                   /\ scenarioTime' <= 5
                   /\ simSpeed' > 0
                   /\ simSpeed' <= 150 - 25 * scenarioTime']_vars

\* the fifth tick of a brake from 15 m/s: 2.5 m/s are left, and the sixth
\* tick will end the episode
C28_Witness ==
    /\ lastOp = "simTick"
    /\ scenario = "brake"
    /\ scenarioTime = 5
    /\ simSpeed = 25

\* C29: in every state of the simulator 0 <= speed <= 15, bearing and
\* azimuth are in [0, 360), the scenario is one of accelerate, cruise, brake
\* and stop, and the speed is 0 while the scenario is 'stop'.
C29_SimulatorInvariant ==
    /\ simSpeed \in 0..150
    /\ simBearing \in 0..359
    /\ simAzimuth \in 0..359
    /\ scenario \in {"accelerate", "cruise", "brake", "stop"}
    /\ scenario = "stop" => simSpeed = 0

\* the first tick of a cruise at the top speed of 15 m/s, on which the
\* bearing has drifted from 0 to 359
C29_Witness ==
    /\ lastOp = "simTick"
    /\ scenario = "cruise"
    /\ scenarioTime = 1
    /\ simSpeed = 150
    /\ simBearing = 359

\* C30: in a run in which the simulator's timer is active, each of the four
\* scenarios is left again whenever it is occupied, and 'accelerate' is
\* visited again and again, whatever the random outcomes of the ticks are.
C30_Progress ==
    /\ \A sc \in {"accelerate", "cruise", "brake", "stop"} :
          []<>(activeIntervals = {} \/ scenario # sc)
    /\ []<>(activeIntervals = {} \/ scenario = "accelerate")

\* 'accelerate' entered from a cruise at the top speed: the simulator has
\* been through 'accelerate' before
C30_Witness ==
    /\ lastOp = "simTick"
    /\ scenario = "accelerate"
    /\ scenarioTime = 0
    /\ simSpeed = 150

\* C31: lastBeepTime is one timestamp for the start-up confirmation beep,
\* the test-sound beep and the brake alert: it is the time of the last beep
\* of any of these kinds that passed the debounce check, every passing beep
\* sets it, and a brake alert requested on entering BRAKING starts a tone
\* iff the engine is unlocked and at least debounceMs have elapsed since
\* that time.
C31_SharedDebounce ==
    [][/\ lastBeepTime = (IF lastSuccessTime = None THEN 0
                          ELSE lastSuccessTime[1])
       /\ beepRet' = "true" => lastBeepTime' = now
       /\ alertCalls' = 1 =>
             /\ ~isBraking /\ isBraking'
             /\ toneStarted' <=>
                   (isUnlocked /\ now - lastBeepTime >= debounceMs)]_vars

\* the only click so far is one on Start, its confirmation beep sounded at
\* the current time, and an entry into BRAKING within debounceMs of it has
\* started no tone
C31_Witness ==
    /\ tasks[1].kind = "start"
    /\ \A i \in 2..MaxTasks : tasks[i].pc = "free"
    /\ isUnlocked
    /\ lastSuccessTime = Some(now)
    /\ lastOp = "motion" /\ isBraking
    /\ alertCalls = 1 /\ ~toneStarted

====
